---- MODULE Spec2Model ----
(***************************************************************************)
(* Tender Insight Hub: the dual-store tender upsert (app/crud.py), the     *)
(* readers that join on the tender identifier (app/routers/search.py,     *)
(* app/routers/readiness.py), the suitability scorer and the readiness     *)
(* handlers (app/routers/readiness.py), the company profile handlers       *)
(* (app/routers/company_profiles.py) and the keyword search                *)
(* (app/routers/search.py).                                                *)
(*                                                                         *)
(* Python values are represented as follows.  A string is a TLA+ string;  *)
(* None in a string position is the reserved string None.  A nullable     *)
(* number is a set with at most one element: {} is None/NULL, {n} is n.    *)
(* The text the search reads is a sequence of one-character strings.       *)
(***************************************************************************)
EXTENDS Integers, Sequences, FiniteSets, TLC

None == "<None>"
\* A key the dict does not carry (dict.get then gives its default).
Absent == "<absent>"
Get(v) == IF v = Absent THEN None ELSE v
\* Python truthiness of a string-or-None value.
Falsy(v) == v \in {Absent, None, ""}

\* Bounds of the model.
NumSessions == 2      \* database sessions that may run upsert_tender concurrently
MaxUpserts == 3       \* upsert_tender invocations in one behaviour
MaxUuid == 2          \* identifiers drawn from uuid.uuid4() in one behaviour

Sessions == 1..NumSessions

\* The identifiers uuid.uuid4() hands out, in order; never one a feed uses.
UuidPool == <<"uuid-1", "uuid-2", "uuid-3", "uuid-4">>

(***************************************************************************)
(* Tender payloads (the tender_doc argument of upsert_tender).             *)
(*   value        [kind, amount]   kind "dict" | "other" | "absent"        *)
(*   tenderPeriod [kind, endDate]  kind "dict" | "other" | "absent"        *)
(***************************************************************************)
Payloads ==
  { [id |-> "T1", title |-> "Road works", description |-> "Supply of road works",
     buyer |-> "Dept A", province |-> "Gauteng",
     value |-> [kind |-> "dict", amount |-> {100}],
     tenderPeriod |-> [kind |-> "dict", endDate |-> "2024-06-01T00:00:00Z"]],
    [id |-> "T1", title |-> Absent, description |-> Absent,
     buyer |-> "Dept B", province |-> "Limpopo",
     value |-> [kind |-> "dict", amount |-> {}],
     tenderPeriod |-> [kind |-> "dict", endDate |-> "next friday"]],
    [id |-> Absent, title |-> "Solar panels", description |-> "Supply of solar photovoltaic systems",
     buyer |-> Absent, province |-> None,
     value |-> [kind |-> "other", amount |-> {}],
     tenderPeriod |-> [kind |-> "absent", endDate |-> None]] }

(***************************************************************************)
(* datetime.datetime.fromisoformat(s.replace("Z", "+00:00")) and           *)
(* datetime.isoformat(), on the date strings of the payloads.  A datetime  *)
(* is a record [date, time, utcoffset]; a string that does not parse makes *)
(* fromisoformat raise ValueError.                                         *)
(***************************************************************************)
ReplaceZ(s) ==
  CASE s = "2024-06-01T00:00:00Z" -> "2024-06-01T00:00:00+00:00"
    [] OTHER -> s

IsoStrings == {"2024-06-01T00:00:00+00:00"}

FromIsoFormat(s) ==
  CASE s = "2024-06-01T00:00:00+00:00" ->
         [date |-> "2024-06-01", time |-> "00:00:00", utcoffset |-> "+00:00"]

IsoFormat(dt) ==
  CASE dt = [date |-> "2024-06-01", time |-> "00:00:00", utcoffset |-> "+00:00"] ->
         "2024-06-01T00:00:00+00:00"

NoDate == [date |-> None, time |-> None, utcoffset |-> None]

\* A parse failure giving a fallback date instead of None.
ParseDeadlineFallbackDate(tender_doc) ==
  LET deadline_str == IF tender_doc.tenderPeriod.kind = "dict"
                      THEN tender_doc.tenderPeriod.endDate ELSE None
  IN IF Falsy(deadline_str) THEN NoDate
     ELSE FromIsoFormat("2024-06-01T00:00:00+00:00")

\* crud.py:16-22: the deadline of a payload, NoDate for Python None.
ParseDeadline(tender_doc) ==
  LET deadline_str == IF tender_doc.tenderPeriod.kind = "dict"
                      THEN tender_doc.tenderPeriod.endDate ELSE None
  IN IF Falsy(deadline_str) THEN NoDate
     ELSE IF ReplaceZ(deadline_str) \in IsoStrings
          THEN FromIsoFormat(ReplaceZ(deadline_str))
          ELSE NoDate

\* The budget defaulting to 0 instead of None when value is not a dict.
BudgetZeroDefault(tender_doc) ==
  IF tender_doc.value.kind = "dict" THEN tender_doc.value.amount ELSE {0}

\* crud.py:15: value.amount when value is a dict, else None.
Budget(tender_doc) ==
  IF tender_doc.value.kind = "dict" THEN tender_doc.value.amount ELSE {}

\* crud.py:12: tender_doc.get("description", ""): the default replaces a
\* missing key only.
Description(tender_doc) ==
  IF tender_doc.description = Absent THEN "" ELSE tender_doc.description

\* crud.py:25-34: the document replace_one stores under _id = tender_id.
MongoDocument(tender_id, tender_doc) ==
  [_id |-> tender_id,
   title |-> Get(tender_doc.title),
   description |-> Description(tender_doc),
   buyer |-> Get(tender_doc.buyer),
   province |-> Get(tender_doc.province),
   budget |-> Budget(tender_doc),
   deadline |-> IF ParseDeadline(tender_doc) = NoDate THEN None
                ELSE IsoFormat(ParseDeadline(tender_doc)),
   raw |-> tender_doc]

\* crud.py:41-46 and 49-57: the column values of the TenderMetadata row.
MetadataRowForgetsBuyer(tender_id, tender_doc) ==
  [tender_id |-> tender_id,
   title |-> Get(tender_doc.title),
   buyer |-> None,
   province |-> Get(tender_doc.province),
   budget_min |-> Budget(tender_doc),
   budget_max |-> Budget(tender_doc),
   deadline |-> ParseDeadline(tender_doc)]

MetadataRow(tender_id, tender_doc) ==
  [tender_id |-> tender_id,
   title |-> Get(tender_doc.title),
   buyer |-> Get(tender_doc.buyer),
   province |-> Get(tender_doc.province),
   budget_min |-> Budget(tender_doc),
   budget_max |-> Budget(tender_doc),
   deadline |-> ParseDeadline(tender_doc)]

(***************************************************************************)
(* State.                                                                  *)
(*   mongo_tenders    the documents of the tenders collection (a set: the  *)
(*                    collection holds one document per _id).  crud.py:7   *)
(*                    imports the name from database.py, which defines     *)
(*                    mongo_db only; it is taken to be mongo_db.tenders,   *)
(*                    the collection the readers query                     *)
(*   tender_metadata  the rows of the tender_metadata table, in insertion  *)
(*                    order                                                *)
(*   call             per session, the running upsert_tender call:         *)
(*                      pc         "idle", "replace_one" (awaiting line    *)
(*                                 25), "execute" (awaiting line 38),      *)
(*                                 "commit" (awaiting line 60),            *)
(*                                 "returned", "raised"                    *)
(*                      tender_doc, tender_id   lines 9-10                 *)
(*                      existing   index of the row the select loaded, 0   *)
(*                                 for None                                *)
(*                      outcome    how the commit ended                    *)
(*                      result     the value the call returned             *)
(*                      solo       no other call on this tender_id has     *)
(*                                 been in flight during this call         *)
(*                      alone      no other call at all has been in flight *)
(*                                 during this call                        *)
(*                      stale      the tender's row was missing or         *)
(*                                 disagreed with its document when the    *)
(*                                 call started                            *)
(*                      rerun      the call repeats, with the same         *)
(*                                 payload, the call recorded in `once`    *)
(*   uuids, upserts   identifiers generated, calls made so far             *)
(*   once             the two stores as a call that ran alone left them,   *)
(*                    its payload, and whether a call repeating that       *)
(*                    payload has since run alone to its return, nothing   *)
(*                    else having been called in between                   *)
(*   last_commit      per tender_id, the row values of the call whose      *)
(*                    session.commit() was executed last                   *)
(*   overlapped       the tender_ids that had two calls in flight at once  *)
(*                    since their last call that ran solo to its return    *)
(*   failed           the tender_ids that had a call raise since their     *)
(*                    last call that ran solo to its return                *)
(***************************************************************************)
VARIABLES mongo_tenders, tender_metadata, call, uuids, upserts,
          once, last_commit, overlapped, failed

upsert_vars == <<mongo_tenders, tender_metadata, call, uuids, upserts,
                 once, last_commit, overlapped, failed>>

\* calculate_suitability_score: its two arguments, and its result once it has run.
VARIABLES score_tender, score_profile, scored

score_vars == <<score_tender, score_profile, scored>>

\* The recommendation tier of a score (readiness.py:126-134): the score, and
\* the tier once it has been evaluated.
VARIABLES tier_score, tier

tier_vars == <<tier_score, tier>>

(***************************************************************************)
(* The company profile and readiness handlers (company_profiles.py,        *)
(* readiness.py).                                                          *)
(*   company_profiles  the documents of the company_profiles collection,   *)
(*                     in insertion (natural) order                        *)
(*   readiness_scores  the documents of the readiness_scores collection,   *)
(*                     in insertion order                                  *)
(*   request           per client, the request it has in flight or the     *)
(*                     response it got                                     *)
(*   requests          requests made so far                                *)
(*   latest            per (tender_id, team_id), what the most recent      *)
(*                     successful check_readiness computed                 *)
(***************************************************************************)
VARIABLES company_profiles, readiness_scores, request, requests, latest

readiness_vars == <<company_profiles, readiness_scores, request, requests, latest>>

\* search_tenders: its arguments, what it returned, and what a second call
\* with one more keyword returned.
VARIABLES search_request, search_results, search_more

search_vars == <<search_request, search_results, search_more>>

\* The spend aggregations (analytics.py): the query, and the groups the
\* endpoint returned.
VARIABLES analytics_request, analytics_result

analytics_vars == <<analytics_request, analytics_result>>

(***************************************************************************)
(* Teams and their members (auth.py).                                      *)
(*   teams          the documents of the teams collection, in insertion    *)
(*                  order                                                  *)
(*   users          the documents of the users collection, in insertion    *)
(*                  order                                                  *)
(*   auth_request   per client, the create_team or add_team_member request *)
(*                  it has in flight or the response it got                *)
(*   team_requests, member_requests   requests made so far                 *)
(***************************************************************************)
VARIABLES teams, users, auth_request, team_requests, member_requests

team_vars == <<teams, users, auth_request, team_requests, member_requests>>

more_vars == <<analytics_vars, team_vars>>

other_vars == <<tier_vars, readiness_vars, search_vars, more_vars>>

TenderIds == {"T1"} \cup {UuidPool[i] : i \in 1..Len(UuidPool)}

NoRow == [tender_id |-> None, title |-> None, buyer |-> None, province |-> None,
          budget_min |-> {}, budget_max |-> {}, deadline |-> NoDate]

NoSnap == [valid |-> FALSE, tender_doc |-> None, docs |-> {}, rows |-> <<>>,
           repeated |-> FALSE]

IdleCall == [pc |-> "idle", tender_doc |-> None, tender_id |-> None, existing |-> 0,
             outcome |-> None, result |-> None, solo |-> FALSE, alone |-> FALSE, stale |-> FALSE,
             rerun |-> FALSE]

InFlight(s) == call[s].pc \in {"replace_one", "execute", "commit"}

\* The rows of the table with this tender_id, by index.
RowsOf(rows, tender_id) == {i \in 1..Len(rows) : rows[i].tender_id = tender_id}

\* The documents of the collection with this _id.
DocsOf(docs, tender_id) == {d \in docs : d._id = tender_id}

\* The relational projection of a stored document: the columns the row shares
\* with it (crud.py:26-32 against crud.py:50-56).
Projection(d) ==
  [tender_id |-> d._id, title |-> d.title, buyer |-> d.buyer, province |-> d.province,
   budget_min |-> d.budget, budget_max |-> d.budget,
   deadline |-> IF d.deadline = None THEN NoDate ELSE FromIsoFormat(d.deadline)]

\* The two stores agree on a tender: one document, one row, the row being the
\* document's projection.
Agree(docs, rows, tender_id) ==
  /\ Cardinality(DocsOf(docs, tender_id)) = 1
  /\ Cardinality(RowsOf(rows, tender_id)) = 1
  /\ \A d \in DocsOf(docs, tender_id) : \A i \in RowsOf(rows, tender_id) :
        rows[i] = Projection(d)

UpsertInit ==
  /\ mongo_tenders = {}
  /\ tender_metadata = <<>>
  /\ call = [s \in Sessions |-> IdleCall]
  /\ uuids = 0
  /\ upserts = 0
  /\ once = NoSnap
  /\ last_commit = [t \in TenderIds |-> NoRow]
  /\ overlapped = {}
  /\ failed = {}

\* The fallback identifier being one fixed value instead of a fresh uuid4.
TenderIdOfFixedFallback(tender_doc) ==
  IF Falsy(tender_doc.id) THEN UuidPool[1] ELSE tender_doc.id

\* crud.py:10: the payload's id, or a fresh uuid4 when it is missing or falsy.
TenderIdOf(tender_doc) ==
  IF Falsy(tender_doc.id) THEN UuidPool[uuids + 1] ELSE tender_doc.id

\* crud.py:9-22: a caller starts upsert_tender(session, tender_doc); the code up
\* to the first await runs without interruption.
Call(s, tender_doc) ==
  /\ ~InFlight(s)
  /\ upserts < MaxUpserts
  /\ Falsy(tender_doc.id) => uuids < MaxUuid
  /\ LET tender_id == TenderIdOf(tender_doc)
         others == {o \in Sessions \ {s} : InFlight(o)}
         rivals == {o \in others : call[o].tender_id = tender_id}
         again == once.valid /\ others = {} /\ once.tender_doc = tender_doc
     IN /\ call' = [o \in Sessions |->
                     IF o = s
                     THEN [pc |-> "replace_one", tender_doc |-> tender_doc,
                           tender_id |-> tender_id, existing |-> 0, outcome |-> None,
                           result |-> None,
                           solo |-> rivals = {}, alone |-> others = {},
                           stale |-> /\ DocsOf(mongo_tenders, tender_id) # {}
                                     /\ ~Agree(mongo_tenders, tender_metadata, tender_id),
                           rerun |-> again]
                     ELSE [call[o] EXCEPT !.solo = @ /\ o \notin rivals,
                                          !.alone = @ /\ o \notin others]]
        /\ once' = IF again THEN once ELSE NoSnap
        /\ overlapped' = IF rivals # {} THEN overlapped \cup {tender_id} ELSE overlapped
        /\ uuids' = IF Falsy(tender_doc.id) THEN uuids + 1 ELSE uuids
  /\ upserts' = upserts + 1
  /\ UNCHANGED <<mongo_tenders, tender_metadata, last_commit, failed, score_vars, other_vars>>

\* replace_one without upsert=True: a missing document is not inserted.
ReplaceOneNoUpsert(docs, tender_id, document) ==
  IF DocsOf(docs, tender_id) = {} THEN docs
  ELSE {d \in docs : d._id # tender_id} \cup {document}

\* crud.py:25-34: replace_one({"_id": tender_id}, document, upsert=True).
ReplaceOne(docs, tender_id, document) ==
  {d \in docs : d._id # tender_id} \cup {document}

\* The call going on to the relational store without having written its
\* document.
MongoReplaceSkipped(s) ==
  /\ call[s].pc = "replace_one"
  /\ call' = [call EXCEPT ![s].pc = "execute"]
  /\ UNCHANGED <<mongo_tenders, tender_metadata, uuids, upserts, once, last_commit,
                 overlapped, failed, score_vars, other_vars>>

MongoReplace(s) ==
  /\ call[s].pc = "replace_one"
  /\ mongo_tenders' = ReplaceOne(mongo_tenders, call[s].tender_id,
                                 MongoDocument(call[s].tender_id, call[s].tender_doc))
  /\ call' = [call EXCEPT ![s].pc = "execute"]
  /\ UNCHANGED <<tender_metadata, uuids, upserts, once, last_commit, overlapped,
                 failed, score_vars, other_vars>>

\* crud.py:37-39: select ... where tender_id == tender_id; scalar_one_or_none().
ScalarOneOrNone(rows, tender_id) ==
  IF RowsOf(rows, tender_id) = {} THEN 0
  ELSE CHOOSE i \in RowsOf(rows, tender_id) : TRUE

\* crud.py:37-58: the select, and the pending update or insert it decides.
\* scalar_one_or_none raises MultipleResultsFound on more than one row.
Select(s) ==
  /\ call[s].pc = "execute"
  /\ call' = [call EXCEPT
       ![s].pc = IF Cardinality(RowsOf(tender_metadata, call[s].tender_id)) > 1
                 THEN "raised" ELSE "commit",
       ![s].existing = ScalarOneOrNone(tender_metadata, call[s].tender_id)]
  /\ UNCHANGED <<mongo_tenders, tender_metadata, uuids, upserts, once, last_commit,
                 overlapped, failed, score_vars, other_vars>>

\* The column without its unique constraint: no INSERT is ever refused.
UniqueViolationNever(rows, row) == FALSE

\* models.py:10: tender_id is unique=True; an INSERT of a second row with the
\* same tender_id violates the constraint.
UniqueViolation(rows, row) == RowsOf(rows, row.tender_id) # {}

\* The existing branch adding a second row instead of updating the loaded one.
UpdateRowAppends(rows, existing, row) == Append(rows, row)

\* The existing branch losing its assignments: the loaded row stays as it was.
UpdateRowKeepsOld(rows, existing, row) == rows

\* crud.py:40-47, 60: the UPDATE of the loaded row, committed.
UpdateRow(rows, existing, row) == [rows EXCEPT ![existing] = row]

\* The INSERT going through although the tender_id is taken (no rollback).
InsertRowNoRollback(rows, row) == Append(rows, row)

\* crud.py:48-58, 60-62: the INSERT of the new row; on IntegrityError the
\* transaction is rolled back and the table is as it was.
InsertRow(rows, row) ==
  IF UniqueViolation(rows, row) THEN rows ELSE Append(rows, row)

\* crud.py:59-63: session.commit() flushes the pending change and commits;
\* IntegrityError is swallowed; the call returns tender_id.
Commit(s) ==
  /\ call[s].pc = "commit"
  /\ LET row == MetadataRow(call[s].tender_id, call[s].tender_doc)
         rows == IF call[s].existing # 0
                 THEN UpdateRow(tender_metadata, call[s].existing, row)
                 ELSE InsertRow(tender_metadata, row)
         outcome == IF call[s].existing # 0 THEN "updated"
                    ELSE IF UniqueViolation(tender_metadata, row) THEN "rolled_back"
                    ELSE "inserted"
     IN /\ tender_metadata' = rows
        /\ call' = [call EXCEPT ![s].pc = "returned", ![s].outcome = outcome,
                                ![s].result = call[s].tender_id]
        /\ last_commit' = [last_commit EXCEPT ![call[s].tender_id] = row]
        /\ once' = IF ~call[s].alone THEN NoSnap
                   ELSE IF call[s].rerun THEN [once EXCEPT !.repeated = TRUE]
                   ELSE [valid |-> TRUE, tender_doc |-> call[s].tender_doc,
                         docs |-> mongo_tenders, rows |-> rows, repeated |-> FALSE]
        /\ overlapped' = IF call[s].solo THEN overlapped \ {call[s].tender_id}
                         ELSE overlapped
        /\ failed' = IF call[s].solo THEN failed \ {call[s].tender_id} ELSE failed
  /\ UNCHANGED <<mongo_tenders, uuids, upserts, score_vars, other_vars>>

\* An await of the call (crud.py:25, 38 or 60) ends in an exception other than
\* IntegrityError (store unavailable, cancellation): nothing catches it, the
\* call raises and the session's pending change is never committed.
Raise(s) ==
  /\ InFlight(s)
  /\ call' = [call EXCEPT ![s].pc = "raised", ![s].outcome = "raised"]
  /\ once' = NoSnap
  /\ failed' = failed \cup {call[s].tender_id}
  /\ UNCHANGED <<mongo_tenders, tender_metadata, uuids, upserts, last_commit,
                 overlapped, score_vars, other_vars>>

(***************************************************************************)
(* The readers of the tenders collection.                                  *)
(***************************************************************************)

\* readiness.py:153: db.tenders.find_one({"tender_id": tender_id}): the
\* documents whose top-level field tender_id equals the argument.
FindByTenderId(docs, tender_id) ==
  {d \in docs : "tender_id" \in DOMAIN d /\ d["tender_id"] = tender_id}

\* readiness.py:152-158: check_readiness answers 404 "Tender not found" when
\* find_one gives None.
TenderNotFound(docs, tender_id) == FindByTenderId(docs, tender_id) = {}

\* search.py:84-95: the batched lookup {"tender_id": {"$in": tender_ids}} and the
\* description search scores for a candidate row ("" when the map has no entry).
SearchDescription(docs, tender_ids, tender_id) ==
  LET found == {d \in docs : "tender_id" \in DOMAIN d /\ d["tender_id"] \in tender_ids}
      mine == {d \in found : d["tender_id"] = tender_id}
  IN IF mine = {} THEN ""
     ELSE LET d == CHOOSE d \in mine : TRUE
          IN IF "description" \in DOMAIN d THEN d.description ELSE ""

(***************************************************************************)
(* calculate_suitability_score (readiness.py:35-136).                      *)
(*                                                                         *)
(* tender_data and company_profile are dicts: functions whose domain is    *)
(* the set of keys the dict carries.  A grade is a string, or None; a      *)
(* level or a number of years is a nullable number; geographic_coverage is *)
(* the set of the list's elements.                                         *)
(***************************************************************************)

\* str.lower() on the sector names of the model.
Lower(str) ==
  CASE str = "Construction" -> "construction"
    [] str = "Energy" -> "energy"
    [] OTHER -> str

\* str.split() on the grade strings of the model.
Split(str) ==
  CASE str = "Grade 7" -> <<"Grade", "7">>
    [] str = "Grade 5" -> <<"Grade", "5">>
    [] str = "Grade 9" -> <<"Grade", "9">>
    [] str = "Grade seven" -> <<"Grade", "seven">>
    [] str = "7" -> <<"7">>
    [] str = " " -> <<>>

\* int(token): {n}, or {} when int raises ValueError.
IntOf(token) ==
  CASE token = "5" -> {5}
    [] token = "7" -> {7}
    [] token = "9" -> {9}
    [] OTHER -> {}

\* A grade that does not parse counting as grade 0.
GradeNumZeroOnFailure(grade) ==
  IF Falsy(grade) THEN {0}
  ELSE IF Split(grade) = <<>> THEN {0}
  ELSE IF IntOf(Split(grade)[Len(Split(grade))]) = {} THEN {0}
  ELSE IntOf(Split(grade)[Len(Split(grade))])

\* readiness.py:79-80: int(grade.split()[-1]) if grade else 0; {} when the
\* conversion raises ValueError or IndexError.
GradeNum(grade) ==
  IF Falsy(grade) THEN {0}
  ELSE IF Split(grade) = <<>> THEN {}
  ELSE IntOf(Split(grade)[Len(Split(grade))])

NoScore == [checklist |-> <<>>, total_points |-> 0, max_points |-> 0, raised |-> FALSE]

\* max_points counting the criterion (by ChecklistItem's default importance of
\* 1) instead of adding its weight.
TallyCountsCriteria(acc, label, shown, matched, importance) ==
  [checklist |-> Append(acc.checklist,
                        [criterion |-> <<label, shown>>, matched |-> matched,
                         importance |-> importance]),
   total_points |-> IF matched THEN acc.total_points + importance ELSE acc.total_points,
   max_points |-> acc.max_points + 1,
   raised |-> acc.raised]

\* One criterion's bookkeeping (readiness.py:46-55 and alike): max_points grows
\* by the weight, total_points grows by it when the criterion matched, and the
\* item is appended.
Tally(acc, label, shown, matched, importance) ==
  [checklist |-> Append(acc.checklist,
                        [criterion |-> <<label, shown>>, matched |-> matched,
                         importance |-> importance]),
   total_points |-> IF matched THEN acc.total_points + importance ELSE acc.total_points,
   max_points |-> acc.max_points + importance,
   raised |-> acc.raised]

\* readiness.py:44-55.
CheckSector(acc, tender_data, company_profile) ==
  IF "industry_sector" \in DOMAIN tender_data /\ "industry_sector" \in DOMAIN company_profile
  THEN Tally(acc, "Industry sector match", tender_data["industry_sector"],
             Lower(tender_data["industry_sector"]) = Lower(company_profile["industry_sector"]),
             5)
  ELSE acc

\* readiness.py:57-68.
CheckProvince(acc, tender_data, company_profile) ==
  IF "province" \in DOMAIN tender_data /\ "geographic_coverage" \in DOMAIN company_profile
  THEN Tally(acc, "Operates in province", tender_data["province"],
             tender_data["province"] \in company_profile["geographic_coverage"], 4)
  ELSE acc

\* The CIDB criterion evaluated whenever the tender carries cidb_required,
\* whatever its value.
CheckCidbIgnoresFlag(acc, tender_data, company_profile) ==
  IF "cidb_required" \in DOMAIN tender_data /\ "cidb_grade" \in DOMAIN company_profile
  THEN LET required_grade == IF "cidb_grade" \in DOMAIN tender_data
                             THEN tender_data["cidb_grade"] ELSE ""
           required_grade_num == GradeNum(required_grade)
           company_grade_num == GradeNum(company_profile["cidb_grade"])
           matched == /\ required_grade_num # {}
                      /\ company_grade_num # {}
                      /\ \E c \in company_grade_num : \E r \in required_grade_num : c >= r
       IN Tally(acc, "Has required CIDB grade", required_grade, matched, 5)
  ELSE acc

\* readiness.py:70-91.
CheckCidb(acc, tender_data, company_profile) ==
  IF /\ "cidb_required" \in DOMAIN tender_data
     /\ tender_data["cidb_required"]
     /\ "cidb_grade" \in DOMAIN company_profile
  THEN LET required_grade == IF "cidb_grade" \in DOMAIN tender_data
                             THEN tender_data["cidb_grade"] ELSE ""
           company_grade == company_profile["cidb_grade"]
           required_grade_num == GradeNum(required_grade)
           company_grade_num == GradeNum(company_grade)
           matched == /\ required_grade_num # {}
                      /\ company_grade_num # {}
                      /\ \E c \in company_grade_num : \E r \in required_grade_num : c >= r
       IN Tally(acc, "Has required CIDB grade", required_grade, matched, 5)
  ELSE acc

\* The B-BBEE comparison being strict: a profile at exactly the required
\* level does not match.
CheckBbbeeStrict(acc, tender_data, company_profile) ==
  IF "bbbee_level_required" \in DOMAIN tender_data /\ "bbbee_level" \in DOMAIN company_profile
  THEN LET required_level == tender_data["bbbee_level_required"]
           company_level == company_profile["bbbee_level"]
       IN IF required_level = {} \/ company_level = {}
          THEN [acc EXCEPT !.max_points = @ + 4, !.raised = TRUE]
          ELSE Tally(acc, "Meets BBBEE level requirement", required_level,
                     \E c \in company_level : \E r \in required_level : c < r, 4)
  ELSE acc

\* readiness.py:93-106.  Comparing None with a number raises TypeError.
CheckBbbee(acc, tender_data, company_profile) ==
  IF "bbbee_level_required" \in DOMAIN tender_data /\ "bbbee_level" \in DOMAIN company_profile
  THEN LET required_level == tender_data["bbbee_level_required"]
           company_level == company_profile["bbbee_level"]
       IN IF required_level = {} \/ company_level = {}
          THEN [acc EXCEPT !.max_points = @ + 4, !.raised = TRUE]
          ELSE Tally(acc, "Meets BBBEE level requirement", required_level,
                     \E c \in company_level : \E r \in required_level : c <= r, 4)
  ELSE acc

\* readiness.py:108-121.
CheckExperience(acc, tender_data, company_profile) ==
  IF "min_years_experience" \in DOMAIN tender_data /\ "years_experience" \in DOMAIN company_profile
  THEN LET required_years == tender_data["min_years_experience"]
           company_years == company_profile["years_experience"]
       IN IF required_years = {} \/ company_years = {}
          THEN [acc EXCEPT !.max_points = @ + 3, !.raised = TRUE]
          ELSE Tally(acc, "Has required experience", required_years,
                     \E c \in company_years : \E r \in required_years : c >= r, 3)
  ELSE acc

\* The score without criteria defaulting to 0 instead of 50.
FinalScoreZeroDefault(total_points, max_points) ==
  IF max_points > 0 THEN (total_points * 100) \div max_points ELSE 0

\* readiness.py:124: int(total_points / max_points * 100), 50 without criteria.
\* For the sums of weights that can occur the float quotient truncates to the
\* integer quotient.
FinalScore(total_points, max_points) ==
  IF max_points > 0 THEN (total_points * 100) \div max_points ELSE 50

\* The tiers with their lower bounds excluded (> where the code has >=).
RecommendationExclusive(score) ==
  IF score > 80 THEN "Highly suitable - strong match for requirements"
  ELSE IF score > 60 THEN "Suitable - good match with some gaps"
  ELSE IF score > 40 THEN "Moderately suitable - significant gaps exist"
  ELSE "Not suitable - major requirements not met"

\* readiness.py:126-134.
Recommendation(score) ==
  IF score >= 80 THEN "Highly suitable - strong match for requirements"
  ELSE IF score >= 60 THEN "Suitable - good match with some gaps"
  ELSE IF score >= 40 THEN "Moderately suitable - significant gaps exist"
  ELSE "Not suitable - major requirements not met"

\* The B-BBEE criterion evaluated before the CIDB criterion.
calculate_suitability_score_reordered(tender_data, company_profile) ==
  LET a1 == CheckSector(NoScore, tender_data, company_profile)
      a2 == CheckProvince(a1, tender_data, company_profile)
      a3 == CheckBbbee(a2, tender_data, company_profile)
      a4 == IF a3.raised THEN a3 ELSE CheckCidb(a3, tender_data, company_profile)
      a5 == IF a4.raised THEN a4 ELSE CheckExperience(a4, tender_data, company_profile)
      score == FinalScore(a5.total_points, a5.max_points)
  IN IF a5.raised
     THEN [kind |-> "raised", score |-> 0, checklist |-> <<>>, recommendation |-> None,
           total_points |-> 0, max_points |-> 0]
     ELSE [kind |-> "returned", score |-> score, checklist |-> a5.checklist,
           recommendation |-> Recommendation(score),
           total_points |-> a5.total_points, max_points |-> a5.max_points]

\* readiness.py:35-136: the result, or the fact that the call raised.
calculate_suitability_score(tender_data, company_profile) ==
  LET a1 == CheckSector(NoScore, tender_data, company_profile)
      a2 == CheckProvince(a1, tender_data, company_profile)
      a3 == CheckCidb(a2, tender_data, company_profile)
      a4 == CheckBbbee(a3, tender_data, company_profile)
      a5 == IF a4.raised THEN a4 ELSE CheckExperience(a4, tender_data, company_profile)
      score == FinalScore(a5.total_points, a5.max_points)
  IN IF a5.raised
     THEN [kind |-> "raised", score |-> 0, checklist |-> <<>>, recommendation |-> None,
           total_points |-> 0, max_points |-> 0]
     ELSE [kind |-> "returned", score |-> score, checklist |-> a5.checklist,
           recommendation |-> Recommendation(score),
           total_points |-> a5.total_points, max_points |-> a5.max_points]

(***************************************************************************)
(* The scorer's inputs.  A dict is drawn by choosing the keys it carries   *)
(* and a value for each.                                                   *)
(***************************************************************************)
Dict(keys, values) == [k \in keys |-> values[k]]

TenderKeys == {"industry_sector", "province", "cidb_required", "cidb_grade",
               "bbbee_level_required", "min_years_experience"}

TenderValues ==
  [industry_sector : {"construction"},
   province : {"Gauteng"},
   cidb_required : BOOLEAN,
   cidb_grade : {"Grade 7", "Grade seven", ""},
   bbbee_level_required : {{2}},
   min_years_experience : {{3}}]

ProfileKeys == {"industry_sector", "geographic_coverage", "cidb_grade", "bbbee_level",
                "years_experience"}

ProfileValues ==
  [industry_sector : {"Construction", "Energy"},
   geographic_coverage : {{"Gauteng", "Limpopo"}, {"Limpopo"}},
   cidb_grade : {"Grade 9", "Grade 5", " ", None},
   bbbee_level : {{1}, {2}, {3}, {}},
   years_experience : {{5}, {1}}]

TenderDicts == {Dict(keys, values) : keys \in SUBSET TenderKeys, values \in TenderValues}

ProfileDicts == {Dict(keys, values) : keys \in SUBSET ProfileKeys, values \in ProfileValues}

Pending == [kind |-> "pending", score |-> 0, checklist |-> <<>>, recommendation |-> None,
            total_points |-> 0, max_points |-> 0]

ScoreInit ==
  /\ score_tender \in TenderDicts
  /\ score_profile \in ProfileDicts
  /\ scored = Pending

ScoreIdle ==
  /\ score_tender = Dict({}, [k \in {} |-> 0])
  /\ score_profile = Dict({}, [k \in {} |-> 0])
  /\ scored = Pending

Score ==
  /\ scored.kind = "pending"
  /\ scored' = calculate_suitability_score(score_tender, score_profile)
  /\ UNCHANGED <<score_tender, score_profile, upsert_vars, other_vars>>

(***************************************************************************)
(* The company profile handlers (company_profiles.py:57-105) and the       *)
(* readiness handlers (readiness.py:139-197).  Each handler runs from one  *)
(* await to the next without interruption; between awaits the handlers of  *)
(* other requests may run.  The timestamps the handlers store (created_at, *)
(* updated_at) are left out.                                               *)
(***************************************************************************)
NumClients == 2       \* requests that may be in flight at the same time
MaxRequests == 3      \* requests handled in one behaviour

Clients == 1..NumClients

Teams == {"team-1"}

\* The tender_id values requests ask about: "T1" has a document, "T2" none.
RequestTenderIds == {"T1", "T2"}

Pairs == RequestTenderIds \X Teams

\* The tenders collection the readers see: a document that carries the field
\* tender_id (frontend/extract_tenders.py stores such documents) with the
\* requirement fields the scorer reads.
FeedTenders ==
  { [_id |-> "T1", tender_id |-> "T1", title |-> "Road works",
     description |-> "Supply of road works", province |-> "Gauteng",
     bbbee_level_required |-> {2}] }

\* The bodies of create requests: CompanyProfileBase.dict(), every field
\* present, the optional ones None when unset (company_profiles.py:19-31).
CreateBodies ==
  { [industry_sector |-> "Construction", geographic_coverage |-> {"Gauteng", "Limpopo"},
     cidb_grade |-> "Grade 9", bbbee_level |-> {1}, years_experience |-> {5}],
    [industry_sector |-> "Energy", geographic_coverage |-> {"Gauteng"},
     cidb_grade |-> None, bbbee_level |-> {}, years_experience |-> {1}] }

\* The bodies of update requests (company_profiles.py:36-37, 96).
UpdateBodies ==
  { [industry_sector |-> "Energy", geographic_coverage |-> {"Limpopo"},
     cidb_grade |-> None, bbbee_level |-> {3}, years_experience |-> {1}] }

EmptyDict == [k \in {} |-> 0]

NoResult == [kind |-> "none"]

IdleRequest ==
  [op |-> None, pc |-> "idle", n |-> 0, team_id |-> None, tender_id |-> None,
   profile |-> EmptyDict, company_profile |-> EmptyDict,
   status |-> 0, detail |-> None, result |-> NoResult, expected |-> NoResult]

\* A handler is between two of its awaits.
Handling(c) == request[c].pc \notin {"idle", "done"}

\* collection.find_one({"team_id": team_id}): the first document in natural
\* order, 0 for None.
FindProfile(profiles, team_id) ==
  LET found == {i \in 1..Len(profiles) : profiles[i].team_id = team_id}
  IN IF found = {} THEN 0 ELSE CHOOSE i \in found : \A j \in found : i <= j

\* readiness_scores.find_one({"tender_id": ..., "team_id": ...}), likewise.
FindReadiness(scores, tender_id, team_id) ==
  LET found == {i \in 1..Len(scores) :
                  scores[i].tender_id = tender_id /\ scores[i].team_id = team_id}
  IN IF found = {} THEN 0 ELSE CHOOSE i \in found : \A j \in found : i <= j

\* The handler answering 200 with a default score where it should raise.
HTTPExceptionDefaults(req, status_code, detail) ==
  [req EXCEPT !.pc = "done", !.status = 200,
              !.result = [id |-> req.n, tender_id |-> req.tender_id, team_id |-> req.team_id,
                          suitability_score |-> 50, checklist |-> <<>>,
                          recommendation |-> "Moderately suitable - significant gaps exist"]]

\* raise HTTPException(status_code, detail): the response of the request.
HTTPException(req, status_code, detail) ==
  [req EXCEPT !.pc = "done", !.status = status_code, !.detail = detail]

ReadinessIdle ==
  /\ company_profiles = <<>>
  /\ readiness_scores = <<>>
  /\ request = [c \in Clients |-> IdleRequest]
  /\ requests = 0
  /\ latest = [pair \in Pairs |-> NoResult]

\* A request arrives: the handler starts and runs up to its first await.
Receive(c, op, pc, team_id, tender_id, profile) ==
  /\ ~Handling(c)
  /\ requests < MaxRequests
  /\ requests' = requests + 1
  /\ request' = [request EXCEPT ![c] =
        [IdleRequest EXCEPT !.op = op, !.pc = pc, !.n = requests + 1,
                            !.team_id = team_id, !.tender_id = tender_id,
                            !.profile = profile]]

\* company_profiles.py:57-60: POST /api/company-profiles/.
create_company_profile(c, team_id, profile) ==
  /\ Receive(c, "create_company_profile", "create:find_one", team_id, None, profile)
  /\ UNCHANGED <<company_profiles, readiness_scores, latest,
                 upsert_vars, score_vars, tier_vars, search_vars, more_vars>>

\* company_profiles.py:60-71: the existence check; 400 when the team has a
\* profile.
CreateFindOne(c) ==
  /\ request[c].pc = "create:find_one"
  /\ request' = [request EXCEPT ![c] =
        IF FindProfile(company_profiles, request[c].team_id) # 0
        THEN HTTPException(@, 400, "Profile already exists for this team")
        ELSE [@ EXCEPT !.pc = "create:insert_one"]]
  /\ UNCHANGED <<company_profiles, readiness_scores, requests, latest,
                 upsert_vars, score_vars, tier_vars, search_vars, more_vars>>

\* company_profiles.py:68-74: insert_one(profile_dict); 201 with the document.
CreateInsertOne(c) ==
  /\ request[c].pc = "create:insert_one"
  /\ LET profile_dict == [team_id |-> request[c].team_id, id |-> request[c].n,
                          profile |-> request[c].profile]
     IN /\ company_profiles' = Append(company_profiles, profile_dict)
        /\ request' = [request EXCEPT ![c].pc = "done", ![c].status = 201,
                                      ![c].result = profile_dict]
  /\ UNCHANGED <<readiness_scores, requests, latest,
                 upsert_vars, score_vars, tier_vars, search_vars, more_vars>>

(***************************************************************************)
(* search_tenders (search.py:44-125).                                      *)
(*                                                                         *)
(* The strings search works on (keywords, descriptions) are sequences of   *)
(* characters; None in such a position is NullStr.  A relevance score k/n  *)
(* is the record [num |-> k, den |-> n]; the int 0 of a search without     *)
(* terms is [num |-> 0, den |-> 1].  Python computes k/n as a float; for   *)
(* the small k, n of a search the floats compare as the fractions do.      *)
(***************************************************************************)
MaxKeywordLen == 3    \* length of the enumerated keyword strings
MaxRows == 3          \* metadata rows in the table search reads

NullStr == <<None>>

Whitespace == {" ", "\t", "\n"}

Uppercase == <<"A", "B", "C", "D", "E", "F", "G", "H", "I", "J", "K", "L", "M", "N",
             "O", "P", "Q", "R", "S", "T", "U", "V", "W", "X", "Y", "Z">>

Lowercase == <<"a", "b", "c", "d", "e", "f", "g", "h", "i", "j", "k", "l", "m", "n",
             "o", "p", "q", "r", "s", "t", "u", "v", "w", "x", "y", "z">>

LowerChar(ch) ==
  IF \E i \in 1..Len(Uppercase) : Uppercase[i] = ch
  THEN Lowercase[CHOOSE i \in 1..Len(Uppercase) : Uppercase[i] = ch]
  ELSE ch

\* str.lower().
LowerChars(str) == [i \in 1..Len(str) |-> LowerChar(str[i])]

\* str.split(): the maximal runs of non-whitespace characters, in order.
RECURSIVE SplitChars(_)
SplitChars(str) ==
  IF str = <<>> THEN <<>>
  ELSE IF Head(str) \in Whitespace THEN SplitChars(Tail(str))
  ELSE LET stops == {i \in 1..Len(str) : str[i] \in Whitespace}
           n == IF stops = {} THEN Len(str)
                ELSE (CHOOSE i \in stops : \A j \in stops : i <= j) - 1
       IN <<SubSeq(str, 1, n)>> \o SplitChars(SubSeq(str, n + 1, Len(str)))

\* description.startswith(term) in the place of `term in description`.
ContainsAtStart(description, term) ==
  /\ Len(term) <= Len(description)
  /\ SubSeq(description, 1, Len(term)) = term

\* search.py:100: term in description (substring test).
Contains(description, term) ==
  \E i \in 0..(Len(description) - Len(term)) :
     SubSeq(description, i + 1, i + Len(term)) = term

\* A term adding the number of its occurrences (frequency, not presence).
TermScoreCountsOccurrences(description, term) ==
  Cardinality({i \in 0..(Len(description) - Len(term)) :
                 SubSeq(description, i + 1, i + Len(term)) = term})

\* search.py:100-101: a term of the query adds 1 when it occurs.
TermScore(description, term) == IF Contains(description, term) THEN 1 ELSE 0

\* search.py:98-101: the loop over the terms.
RECURSIVE CountMatches(_, _)
CountMatches(description, search_terms) ==
  IF search_terms = <<>> THEN 0
  ELSE TermScore(description, Head(search_terms))
         + CountMatches(description, Tail(search_terms))

\* search.py:98-105: the count, divided by the number of terms when there
\* are any.
RelevanceScore(description, search_terms) ==
  IF search_terms # <<>>
  THEN [num |-> CountMatches(description, search_terms), den |-> Len(search_terms)]
  ELSE [num |-> 0, den |-> 1]

\* a < b on relevance scores.
KeyLess(a, b) == a.num * b.den < b.num * a.den

\* The order of the datetimes of the model.
DateOrdinal(dt) ==
  CASE dt.date = "2024-06-01" -> 1
    [] dt.date = "2024-07-01" -> 2
    [] dt.date = "2024-08-01" -> 3

Date(date) == [date |-> date, time |-> "00:00:00", utcoffset |-> "+00:00"]

\* The budget filter testing containment: the tender's bounds inside the
\* requested range.
BudgetFilterContained(row, min_budget, max_budget) ==
  /\ min_budget # {} => \E x \in row.budget_min : \E m \in min_budget : x >= m
  /\ max_budget # {} => \E x \in row.budget_max : \E m \in max_budget : x <= m

\* search.py:68-71: budget_max >= min_budget and budget_min <= max_budget, each
\* when its bound is not None.  A comparison with NULL selects no row.
BudgetFilter(row, min_budget, max_budget) ==
  /\ min_budget # {} => \E x \in row.budget_max : \E m \in min_budget : x >= m
  /\ max_budget # {} => \E x \in row.budget_min : \E m \in max_budget : x <= m

\* search.py:63-78: the conjunction of the filters that were provided.
Matches(row, req) ==
  /\ ~Falsy(req.province) => row.province = req.province
  /\ ~Falsy(req.buyer) => row.buyer = req.buyer
  /\ BudgetFilter(row, req.min_budget, req.max_budget)
  /\ req.deadline_from # NoDate =>
        /\ row.deadline # NoDate
        /\ DateOrdinal(row.deadline) >= DateOrdinal(req.deadline_from)
  /\ req.deadline_to # NoDate =>
        /\ row.deadline # NoDate
        /\ DateOrdinal(row.deadline) <= DateOrdinal(req.deadline_to)

\* search.py:81-82: the rows the query selects, in the order the store
\* returns them.
Candidates(rows, req) == SelectSeq(rows, LAMBDA row : Matches(row, req))

\* search.py:86-95: the description of the candidate's document in the map
\* built from the batched lookup {"tender_id": {"$in": tender_ids}}; "" when the
\* map has no entry or the document no description.
MongoDescription(docs, tender_ids, tender_id) ==
  LET found == {d \in docs : "tender_id" \in DOMAIN d /\ d["tender_id"] \in tender_ids}
      mine == {d \in found : d["tender_id"] = tender_id}
  IN IF mine = {} THEN <<>>
     ELSE LET d == CHOOSE d \in mine : TRUE
          IN IF "description" \in DOMAIN d THEN d.description ELSE <<>>

\* search.py:116: the first 200 characters, with "..." when there are more.
Excerpt(description) ==
  IF Len(description) > 200 THEN SubSeq(description, 1, 200) \o <<".", ".", ".">>
  ELSE description

\* search.py:108-118.
SearchResult(tender, description, search_terms) ==
  [tender_id |-> tender.tender_id, title |-> tender.title, buyer |-> tender.buyer,
   province |-> tender.province, budget_min |-> tender.budget_min,
   budget_max |-> tender.budget_max, deadline |-> tender.deadline,
   excerpt |-> Excerpt(description),
   relevance_score |-> RelevanceScore(description, search_terms)]

\* The sort placing a result before the results of equal relevance.
RECURSIVE SortTiesReversed(_)
SortTiesReversed(results) ==
  IF results = <<>> THEN <<>>
  ELSE LET sorted == SortTiesReversed(SubSeq(results, 1, Len(results) - 1))
           r == results[Len(results)]
           before == SelectSeq(sorted, LAMBDA x : KeyLess(r.relevance_score, x.relevance_score))
           after == SelectSeq(sorted, LAMBDA x : ~KeyLess(r.relevance_score, x.relevance_score))
       IN before \o <<r>> \o after

\* search.py:123: results.sort(key=relevance_score, reverse=True): a stable
\* sort, each result placed behind the results of greater or equal relevance
\* that came before it.
RECURSIVE SortByRelevance(_)
SortByRelevance(results) ==
  IF results = <<>> THEN <<>>
  ELSE LET sorted == SortByRelevance(SubSeq(results, 1, Len(results) - 1))
           r == results[Len(results)]
           before == SelectSeq(sorted, LAMBDA x : ~KeyLess(x.relevance_score, r.relevance_score))
           after == SelectSeq(sorted, LAMBDA x : KeyLess(x.relevance_score, r.relevance_score))
       IN before \o <<r>> \o after

\* search.py:44-125.  A description that is None has no lower(): the call
\* raises AttributeError.
search_tenders(req, rows, docs) ==
  LET search_terms == SplitChars(LowerChars(req.keywords))
      tenders == Candidates(rows, req)
      tender_ids == {tenders[i].tender_id : i \in 1..Len(tenders)}
      description(i) == MongoDescription(docs, tender_ids, tenders[i].tender_id)
      results == [i \in 1..Len(tenders) |->
                    SearchResult(tenders[i], LowerChars(description(i)), search_terms)]
  IN IF \E i \in 1..Len(tenders) : description(i) = NullStr
     THEN [kind |-> "raised", results |-> <<>>]
     ELSE [kind |-> "returned", results |-> SortByRelevance(results)]

(***************************************************************************)
(* The inputs of search.                                                   *)
(***************************************************************************)
\* The rows of tender_metadata (models.py:7-16).
SearchRows ==
  { [tender_id |-> "T1", title |-> "Solar plant", buyer |-> "Dept A", province |-> "Gauteng",
     budget_min |-> {100}, budget_max |-> {500}, deadline |-> Date("2024-06-01")],
    [tender_id |-> "T2", title |-> "Road works", buyer |-> None, province |-> "Limpopo",
     budget_min |-> {}, budget_max |-> {}, deadline |-> NoDate],
    [tender_id |-> "T3", title |-> "Abba", buyer |-> "Dept B", province |-> "Gauteng",
     budget_min |-> {600}, budget_max |-> {600}, deadline |-> Date("2024-08-01")],
    [tender_id |-> "T4", title |-> "Untitled", buyer |-> "Dept A", province |-> None,
     budget_min |-> {0}, budget_max |-> {0}, deadline |-> NoDate],
    [tender_id |-> "T5", title |-> "Panels", buyer |-> "Dept A", province |-> "Gauteng",
     budget_min |-> {100}, budget_max |-> {100}, deadline |-> Date("2024-06-01")] }

\* The table: up to MaxRows rows, no tender_id twice (models.py:10), in any
\* order.
RowSeqs ==
  {rows \in UNION {[1..k -> SearchRows] : k \in 0..MaxRows} :
     \A i, j \in 1..Len(rows) : i # j => rows[i].tender_id # rows[j].tender_id}

\* The tenders collection: documents that carry tender_id, one with a
\* description that is None, one without description, and for T2 a document
\* as upsert_tender stores it (no field tender_id).
SearchTenders ==
  { [_id |-> "T1", tender_id |-> "T1",
     description |-> <<"S", "u", "p", "p", "l", "y", " ", "o", "f", " ", "s", "o", "l", "a",
                     "r", " ", "p", "h", "o", "t", "o", "v", "o", "l", "t", "a", "i", "c",
                     " ", "s", "y", "s", "t", "e", "m", "s">>],
    [_id |-> "T2", description |-> <<"R", "o", "a", "d", " ", "w", "o", "r", "k", "s">>],
    [_id |-> "T3", tender_id |-> "T3", description |-> <<"A", "b", "b", "a">>],
    [_id |-> "T4", tender_id |-> "T4", description |-> NullStr],
    [_id |-> "T5", tender_id |-> "T5"] }

KeywordAlphabet == {"a", "B", " "}

\* The keyword strings: every string over the alphabet up to MaxKeywordLen,
\* and the queries below.
KeywordStrings ==
  UNION {[1..k -> KeywordAlphabet] : k \in 0..MaxKeywordLen}
    \cup { <<"s", "o", "l", "a", "r", " ", "p", "a", "n", "e", "l", "s">>,
           <<"S", "O", "L", "A", "R", " ", " ", "s", "o", "l", "a", "r">> }

\* The keyword a second search adds.
MoreTerms == { <<"s", "o", "l", "a", "r">>, <<"b", "b">>, <<"r", "o", "a", "d">> }

NoFilters ==
  [province : {None}, buyer : {None}, min_budget : {{}}, max_budget : {{}},
   deadline_from : {NoDate}, deadline_to : {NoDate}]

Filters ==
  [province : {None, "Gauteng"}, buyer : {None, "Dept A"},
   min_budget : {{}, {0}, {400}, {600}}, max_budget : {{}, {50}, {500}},
   deadline_from : {NoDate, Date("2024-07-01")}, deadline_to : {NoDate, Date("2024-07-01")}]

SearchRequest(keywords, filters) ==
  [keywords |-> keywords, province |-> filters.province, buyer |-> filters.buyer,
   min_budget |-> filters.min_budget, max_budget |-> filters.max_budget,
   deadline_from |-> filters.deadline_from, deadline_to |-> filters.deadline_to]

\* Every keyword string without filters, and every combination of filters
\* with one query.
SearchRequests ==
  {SearchRequest(keywords, filters) : keywords \in KeywordStrings, filters \in NoFilters}
    \cup {SearchRequest(<<"s", "o", "l", "a", "r", " ", "a">>, filters) :
            filters \in Filters}

PendingSearch == [kind |-> "pending", results |-> <<>>]

SearchInit ==
  /\ mongo_tenders = SearchTenders
  /\ tender_metadata \in RowSeqs
  /\ call = [s \in Sessions |-> IdleCall]
  /\ uuids = 0
  /\ upserts = 0
  /\ once = NoSnap
  /\ last_commit = [t \in TenderIds |-> NoRow]
  /\ overlapped = {}
  /\ failed = {}
  /\ search_request \in SearchRequests
  /\ search_results = PendingSearch
  /\ search_more = [term |-> <<>>, kind |-> "pending", results |-> <<>>]

\* search_tenders is called with the request.
Search ==
  /\ search_results.kind = "pending"
  /\ search_results' = search_tenders(search_request, tender_metadata, mongo_tenders)
  /\ UNCHANGED <<search_request, search_more, upsert_vars, score_vars, tier_vars,
                 readiness_vars, more_vars>>

\* search_tenders is called again, one keyword appended to the keywords.
SearchMore(term) ==
  /\ search_results.kind # "pending"
  /\ search_more.kind = "pending"
  /\ LET more == search_tenders(
                   [search_request EXCEPT !.keywords = @ \o <<" ">> \o term],
                   tender_metadata, mongo_tenders)
     IN search_more' = [term |-> term, kind |-> more.kind, results |-> more.results]
  /\ UNCHANGED <<search_request, search_results, upsert_vars, score_vars, tier_vars,
                 readiness_vars, more_vars>>

SearchIdle ==
  /\ search_request = None
  /\ search_results = None
  /\ search_more = None

\* company_profiles.py:86-88: PUT /api/company-profiles/{team_id}.
update_company_profile(c, team_id, profile) ==
  /\ Receive(c, "update_company_profile", "update:find_one", team_id, None, profile)
  /\ UNCHANGED <<company_profiles, readiness_scores, latest,
                 upsert_vars, score_vars, tier_vars, search_vars, more_vars>>

\* company_profiles.py:88-97: 404 when the team has no profile.
UpdateFindOne(c) ==
  /\ request[c].pc = "update:find_one"
  /\ request' = [request EXCEPT ![c] =
        IF FindProfile(company_profiles, request[c].team_id) = 0
        THEN HTTPException(@, 404, "Company profile not found")
        ELSE [@ EXCEPT !.pc = "update:update_one"]]
  /\ UNCHANGED <<company_profiles, readiness_scores, requests, latest,
                 upsert_vars, score_vars, tier_vars, search_vars, more_vars>>

\* company_profiles.py:99-102: update_one({"team_id": team_id}, {"$set":
\* profile_dict}) sets the fields of the first matching document.
UpdateOne(c) ==
  /\ request[c].pc = "update:update_one"
  /\ LET i == FindProfile(company_profiles, request[c].team_id)
     IN company_profiles' = IF i = 0 THEN company_profiles
                            ELSE [company_profiles EXCEPT ![i].profile = request[c].profile]
  /\ request' = [request EXCEPT ![c].pc = "update:refetch"]
  /\ UNCHANGED <<readiness_scores, requests, latest,
                 upsert_vars, score_vars, tier_vars, search_vars, more_vars>>

\* company_profiles.py:104-105: the document is read back and returned.
UpdateRefetch(c) ==
  /\ request[c].pc = "update:refetch"
  /\ LET i == FindProfile(company_profiles, request[c].team_id)
     IN request' = [request EXCEPT ![c].pc = "done", ![c].status = 200,
                                   ![c].result = IF i = 0 THEN NoResult
                                                 ELSE company_profiles[i]]
  /\ UNCHANGED <<company_profiles, readiness_scores, requests, latest,
                 upsert_vars, score_vars, tier_vars, search_vars, more_vars>>

\* readiness.py:139-145: POST /api/readiness/check.
check_readiness(c, tender_id, team_id) ==
  /\ Receive(c, "check_readiness", "check:find_profile", team_id, tender_id, EmptyDict)
  /\ UNCHANGED <<company_profiles, readiness_scores, latest,
                 upsert_vars, score_vars, tier_vars, search_vars, more_vars>>

\* readiness.py:145-150: the profile lookup; 404 when the team has none.
CheckFindProfile(c) ==
  /\ request[c].pc = "check:find_profile"
  /\ LET i == FindProfile(company_profiles, request[c].team_id)
     IN request' = [request EXCEPT ![c] =
          IF i = 0 THEN HTTPException(@, 404, "Company profile not found")
          ELSE [@ EXCEPT !.pc = "check:find_tender",
                         !.company_profile = company_profiles[i].profile]]
  /\ UNCHANGED <<company_profiles, readiness_scores, requests, latest,
                 upsert_vars, score_vars, tier_vars, search_vars, more_vars>>

\* readiness.py:153-173: the tender lookup, 404 when there is none; then the
\* score (calculate_suitability_score has no await of its own) and the
\* record to insert.  An exception of the scorer ends the request with 500.
CheckFindTender(c) ==
  /\ request[c].pc = "check:find_tender"
  /\ request' = [request EXCEPT ![c] =
        IF TenderNotFound(mongo_tenders, request[c].tender_id)
        THEN HTTPException(@, 404, "Tender not found")
        ELSE LET tender == CHOOSE d \in FindByTenderId(mongo_tenders, request[c].tender_id) : TRUE
                 computed == calculate_suitability_score(tender, request[c].company_profile)
             IN IF computed.kind = "raised"
                THEN HTTPException(@, 500, "Internal Server Error")
                ELSE [@ EXCEPT !.pc = "check:insert_one",
                               !.result = [id |-> request[c].n,
                                           tender_id |-> request[c].tender_id,
                                           team_id |-> request[c].team_id,
                                           suitability_score |-> computed.score,
                                           checklist |-> computed.checklist,
                                           recommendation |-> computed.recommendation]]]
  /\ UNCHANGED <<company_profiles, readiness_scores, requests, latest,
                 upsert_vars, score_vars, tier_vars, search_vars, more_vars>>

\* readiness.py:175: readiness_scores.insert_one(readiness_data).
InsertOne(scores, readiness_data) == Append(scores, readiness_data)

\* readiness.py:175-177: the record is inserted and returned.
CheckInsertOne(c) ==
  /\ request[c].pc = "check:insert_one"
  /\ readiness_scores' = InsertOne(readiness_scores, request[c].result)
  /\ latest' = [latest EXCEPT ![<<request[c].tender_id, request[c].team_id>>] =
                                  request[c].result]
  /\ request' = [request EXCEPT ![c].pc = "done", ![c].status = 200]
  /\ UNCHANGED <<company_profiles, requests,
                 upsert_vars, score_vars, tier_vars, search_vars, more_vars>>

\* readiness.py:179-186: GET /api/readiness/{tender_id}/{team_id}.
get_readiness_score(c, tender_id, team_id) ==
  /\ Receive(c, "get_readiness_score", "get:find_one", team_id, tender_id, EmptyDict)
  /\ UNCHANGED <<company_profiles, readiness_scores, latest,
                 upsert_vars, score_vars, tier_vars, search_vars, more_vars>>

\* readiness.py:186-197: 404 when the pair has no record, else the record
\* find_one gives.  `expected` notes what the pair's most recent check
\* computed.
GetFindOne(c) ==
  /\ request[c].pc = "get:find_one"
  /\ LET i == FindReadiness(readiness_scores, request[c].tender_id, request[c].team_id)
     IN request' = [request EXCEPT ![c] =
          IF i = 0 THEN HTTPException(@, 404, "Readiness score not found")
          ELSE [@ EXCEPT !.pc = "done", !.status = 200,
                         !.result = readiness_scores[i],
                         !.expected = latest[<<request[c].tender_id, request[c].team_id>>]]]
  /\ UNCHANGED <<company_profiles, readiness_scores, requests, latest,
                 upsert_vars, score_vars, tier_vars, search_vars, more_vars>>

\* The tenders collection as the readiness handlers find it; nothing else of
\* the upsert protocol is running.
ReadinessInit ==
  /\ mongo_tenders = FeedTenders
  /\ tender_metadata = <<>>
  /\ call = [s \in Sessions |-> IdleCall]
  /\ uuids = 0
  /\ upserts = 0
  /\ once = NoSnap
  /\ last_commit = [t \in TenderIds |-> NoRow]
  /\ overlapped = {}
  /\ failed = {}
  /\ ReadinessIdle

(***************************************************************************)
(* The recommendation tier (readiness.py:126-134) on every score of the    *)
(* response model's range (readiness.py:26).                               *)
(***************************************************************************)
TierScores == 0..100

TierIdle ==
  /\ tier_score = 0
  /\ tier = None

TierInit ==
  /\ tier_score \in TierScores
  /\ tier = None

\* readiness.py:126-134 applied to the score.
Recommend ==
  /\ tier = None
  /\ tier' = Recommendation(tier_score)
  /\ UNCHANGED <<tier_score, upsert_vars, score_vars, readiness_vars, search_vars, more_vars>>

(***************************************************************************)
(* The spend aggregations (analytics.py:14-110) over the tenders           *)
(* collection.  A document carries any of the fields buyer, province,      *)
(* budget_min, budget_max and date; a number or a date is a nullable value *)
(* (a set with at most one element); a datetime is [day, time].  Amounts   *)
(* in the results are counted in halves, the mean of two integer bounds    *)
(* being a multiple of one half.                                           *)
(***************************************************************************)
MaxTenders == 3       \* documents in the collection the aggregation reads
MaxLimit == 2         \* the largest limit a spend-by-buyer query asks for

\* analytics.py:108: to_list(length=100).
ProvinceListLength == 100

\* Times of day, in order: datetime.time.min, a time within the day,
\* datetime.time.max.
TimesOfDay == <<"00:00:00", "12:00:00", "23:59:59.999999">>

TimeRank(time) == CHOOSE i \in 1..Len(TimesOfDay) : TimesOfDay[i] = time

\* datetime.datetime.combine(date, time).
Combine(date, time) == [day |-> date, time |-> time]

DatetimeLeq(a, b) ==
  \/ a.day < b.day
  \/ a.day = b.day /\ TimeRank(a.time) <= TimeRank(b.time)

\* analytics.py:25-29: the bounds of the date filter that are given.
DateFilter(start_date, end_date) ==
  [gte |-> {Combine(date, TimesOfDay[1]) : date \in start_date},
   lte |-> {Combine(date, TimesOfDay[3]) : date \in end_date}]

\* analytics.py:23-35: {"$match": {"date": date_filter}} when a bound is given:
\* the documents whose date is a datetime within the bounds (a missing or
\* null date matches no range).
MatchStage(docs, start_date, end_date) ==
  IF start_date = {} /\ end_date = {} THEN docs
  ELSE LET date_filter == DateFilter(start_date, end_date)
       IN {d \in docs :
             /\ "date" \in DOMAIN d
             /\ d.date # {}
             /\ \A dt \in d.date :
                   /\ \A bound \in date_filter.gte : DatetimeLeq(bound, dt)
                   /\ \A bound \in date_filter.lte : DatetimeLeq(dt, bound)}

\* "$buyer", "$province": the field's value, null when the field is missing.
FieldOrNull(d, field) == IF field \in DOMAIN d THEN d[field] ELSE None

\* {"$avg": ["$budget_min", "$budget_max"]}: the mean of the numeric ones of
\* the two, null when neither is numeric; in halves.
AvgBudget(d) ==
  LET budget_min == IF "budget_min" \in DOMAIN d THEN d["budget_min"] ELSE {}
      budget_max == IF "budget_max" \in DOMAIN d THEN d["budget_max"] ELSE {}
  IN IF budget_min = {} THEN {2 * x : x \in budget_max}
     ELSE IF budget_max = {} THEN {2 * x : x \in budget_min}
     ELSE {x + y : x \in budget_min, y \in budget_max}

\* {"$sum": ...}: the sum of the numeric values, 0 when there is none;
\* counted as the number of units the documents (one per _id) contribute.
SumAvgBudget(docs) ==
  Cardinality(UNION {{<<d._id, unit>> : unit \in 1..(CHOOSE avg \in AvgBudget(d) : TRUE)} :
                       d \in {d \in docs : AvgBudget(d) # {}}})

\* analytics.py:38-45: the $group stage of spend-by-buyer.  avg_budget is
\* the quotient sum / count over the documents with a numeric mean, null
\* when count is 0.
GroupByBuyer(docs) ==
  {LET members == {d \in docs : FieldOrNull(d, "buyer") = g}
   IN [_id |-> g,
       total_spend |-> SumAvgBudget(members),
       tender_count |-> Cardinality(members),
       avg_budget |-> [sum |-> SumAvgBudget(members),
                       count |-> Cardinality({d \in members : AvgBudget(d) # {}})]] :
     g \in {FieldOrNull(d, "buyer") : d \in docs}}

\* analytics.py:88-94: the $group stage of spend-by-province.
GroupByProvince(docs) ==
  {LET members == {d \in docs : FieldOrNull(d, "province") = g}
   IN [_id |-> g,
       total_spend |-> SumAvgBudget(members),
       tender_count |-> Cardinality(members)] :
     g \in {FieldOrNull(d, "province") : d \in docs}}

\* The null group passing the filter.
MatchNotNullKeepsAll(groups) == groups

\* analytics.py:46, 95: {"$match": {"_id": {"$ne": None}}}.
MatchNotNull(groups) == {g \in groups : g._id # None}

\* analytics.py:47, 96: {"$sort": {"total_spend": -1}}: every order of the
\* groups in which total_spend does not increase (the order of equal totals
\* is not determined).
RECURSIVE Orders(_)
Orders(groups) ==
  IF groups = {} THEN {<<>>}
  ELSE UNION {{<<g>> \o rest : rest \in Orders(groups \ {g})} : g \in groups}

RECURSIVE SortDescending(_)
SortDescending(groups) ==
  LET totals == {g.total_spend : g \in groups}
  IN IF Cardinality(totals) <= 1 THEN Orders(groups)
     ELSE LET pivot == CHOOSE t \in totals :
                          Cardinality({u \in totals : u < t}) = Cardinality(totals) \div 2
          IN {upper \o lower :
                upper \in SortDescending({g \in groups : g.total_spend >= pivot}),
                lower \in SortDescending({g \in groups : g.total_spend < pivot})}

\* analytics.py:48: {"$limit": limit}.
Limit(groups, limit) ==
  SubSeq(groups, 1, IF Len(groups) < limit THEN Len(groups) ELSE limit)

\* analytics.py:61, 108: to_list(length): at most length documents of the cursor.
ToList(cursor, length) ==
  SubSeq(cursor, 1, IF Len(cursor) < length THEN Len(cursor) ELSE length)

\* analytics.py:49-57.
ProjectBuyer(g) ==
  [buyer |-> g._id, total_spend |-> g.total_spend, tender_count |-> g.tender_count,
   avg_budget |-> g.avg_budget]

\* analytics.py:97-104.
ProjectProvince(g) ==
  [province |-> g._id, total_spend |-> g.total_spend, tender_count |-> g.tender_count]

\* analytics.py:22-63: the lists spend-by-buyer can return.
SpendByBuyer(docs, req) ==
  LET limit == CHOOSE n \in req.limit : TRUE
  IN {ToList([i \in 1..Len(limited) |-> ProjectBuyer(limited[i])], limit) :
        limited \in {Limit(sorted, limit) :
                       sorted \in SortDescending(MatchNotNull(GroupByBuyer(
                                    MatchStage(docs, req.start_date, req.end_date))))}}

\* analytics.py:72-110: the lists spend-by-province can return.
SpendByProvince(docs, req) ==
  {ToList([i \in 1..Len(sorted) |-> ProjectProvince(sorted[i])], ProvinceListLength) :
     sorted \in SortDescending(MatchNotNull(GroupByProvince(
                  MatchStage(docs, req.start_date, req.end_date))))}

\* Documents of the tenders collection: with both bounds, with one bound,
\* with a null buyer and province, without the buyer and province fields, and
\* one as upsert_tender writes it (budget and deadline, no bounds, no date).
AnalyticsPool ==
  { [_id |-> "A1", buyer |-> "Dept A", province |-> "Gauteng",
     budget_min |-> {1}, budget_max |-> {3},
     date |-> {[day |-> 10, time |-> "00:00:00"]}],
    [_id |-> "A2", buyer |-> "Dept A", province |-> "Limpopo",
     budget_min |-> {1}, budget_max |-> {},
     date |-> {[day |-> 20, time |-> "12:00:00"]}],
    [_id |-> "A3", buyer |-> "Dept B", province |-> "Gauteng",
     budget_min |-> {2}, budget_max |-> {2},
     date |-> {[day |-> 20, time |-> "12:00:00"]}],
    [_id |-> "A4", buyer |-> None, province |-> None,
     budget_min |-> {5}, budget_max |-> {5},
     date |-> {[day |-> 10, time |-> "12:00:00"]}],
    [_id |-> "A5", budget_min |-> {1}, budget_max |-> {1}, date |-> {}],
    MongoDocument("T1", CHOOSE tender_doc \in Payloads : tender_doc.buyer = "Dept B") }

\* A collection with one more province than to_list(length=100) takes, each
\* with its own total.
ManyProvinces ==
  {[_id |-> ToString(i), buyer |-> "Dept A", province |-> ToString(i),
    budget_min |-> {i}, budget_max |-> {i},
    date |-> {[day |-> 10, time |-> "00:00:00"]}] : i \in 1..(ProvinceListLength + 1)}

AnalyticsCollections ==
  {docs \in SUBSET AnalyticsPool : Cardinality(docs) <= MaxTenders} \cup {ManyProvinces}

\* The queries: limit is the query parameter of spend-by-buyer (analytics.py:18),
\* {n} for n; spend-by-province has none.
AnalyticsRequests ==
  [endpoint : {"spend-by-buyer"}, start_date : {{}, {15}}, end_date : {{}, {15}, {20}},
   limit : {{n} : n \in 1..MaxLimit}]
    \cup [endpoint : {"spend-by-province"}, start_date : {{}, {15}},
          end_date : {{}, {15}, {20}}, limit : {{}}]

PendingAnalytics == [kind |-> "pending", rows |-> <<>>]

(***************************************************************************)
(* create_team and add_team_member (auth.py:106-255).  Each handler runs   *)
(* from one await to the next without interruption.  Of a user the email,  *)
(* the team and the admin flag are kept; names, passwords and timestamps   *)
(* are left out.                                                           *)
(***************************************************************************)
MaxTeams == 1         \* create_team requests in one behaviour
MaxMembers == 3       \* add_team_member requests in one behaviour

\* The identifiers uuid.uuid4() gives the teams, in order.
TeamIdPool == <<"team-1", "team-2", "team-3">>

AdminEmails == {"admin@example.org"}

MemberEmails == {"a@example.org", "b@example.org", "c@example.org"}

SubscriptionTiers == {"basic"}

\* auth.py:121-125, 131: seat_limits.get(subscription_tier, 3).
SeatLimit(subscription_tier) ==
  CASE subscription_tier = "basic" -> 3
    [] subscription_tier = "premium" -> 10
    [] subscription_tier = "enterprise" -> 25
    [] OTHER -> 3

NoTeam == [id |-> None, subscription_tier |-> None, seat_count |-> 0, seats_used |-> 0]

IdleAuthRequest ==
  [op |-> None, pc |-> "idle", n |-> 0, email |-> None, subscription_tier |-> None,
   team_id |-> None, is_admin |-> FALSE, team |-> NoTeam, status |-> 0, detail |-> None]

AuthHandling(c) == auth_request[c].pc \notin {"idle", "done"}

\* db.users.find_one({"email": email}): the first such user, 0 for None.
FindUserByEmail(docs, email) ==
  LET found == {i \in 1..Len(docs) : docs[i].email = email}
  IN IF found = {} THEN 0 ELSE CHOOSE i \in found : \A j \in found : i <= j

\* db.teams.find_one({"id": team_id}): the first such team, 0 for None.
FindTeam(docs, team_id) ==
  LET found == {i \in 1..Len(docs) : docs[i].id = team_id}
  IN IF found = {} THEN 0 ELSE CHOOSE i \in found : \A j \in found : i <= j

TeamIdle ==
  /\ teams = <<>>
  /\ users = <<>>
  /\ auth_request = [c \in Clients |-> IdleAuthRequest]
  /\ team_requests = 0
  /\ member_requests = 0

\* auth.py:107-110: POST /teams; the handler runs up to its find_one.
create_team(c, admin_email, subscription_tier) ==
  /\ ~AuthHandling(c)
  /\ team_requests < MaxTeams
  /\ team_requests' = team_requests + 1
  /\ auth_request' = [auth_request EXCEPT ![c] =
        [IdleAuthRequest EXCEPT !.op = "create_team", !.pc = "team:find_user",
                                !.n = team_requests + 1, !.email = admin_email,
                                !.subscription_tier = subscription_tier, !.is_admin = TRUE]]
  /\ UNCHANGED <<teams, users, member_requests, upsert_vars, score_vars, tier_vars,
                 readiness_vars, search_vars, analytics_vars>>

\* auth.py:110-135: 400 when the email is registered; else the team document
\* is built, its id a fresh uuid4, seats_used 1 for the admin.
CreateTeamFindUser(c) ==
  /\ auth_request[c].pc = "team:find_user"
  /\ LET req == auth_request[c]
         team_id == TeamIdPool[req.n]
     IN auth_request' = [auth_request EXCEPT ![c] =
          IF FindUserByEmail(users, req.email) # 0
          THEN HTTPException(req, 400, "Email already registered")
          ELSE [req EXCEPT !.pc = "team:insert_team",
                           !.team_id = team_id,
                           !.team = [id |-> team_id,
                                     subscription_tier |-> req.subscription_tier,
                                     seat_count |-> SeatLimit(req.subscription_tier),
                                     seats_used |-> 1]]]
  /\ UNCHANGED <<teams, users, team_requests, member_requests, upsert_vars, score_vars,
                 tier_vars, readiness_vars, search_vars, analytics_vars>>

\* auth.py:136: db.teams.insert_one(team_data).
CreateTeamInsertTeam(c) ==
  /\ auth_request[c].pc = "team:insert_team"
  /\ teams' = Append(teams, auth_request[c].team)
  /\ auth_request' = [auth_request EXCEPT ![c].pc = "team:insert_user"]
  /\ UNCHANGED <<users, team_requests, member_requests, upsert_vars, score_vars,
                 tier_vars, readiness_vars, search_vars, analytics_vars>>

\* auth.py:138-154: db.users.insert_one(user_data) for the admin; 201.
CreateTeamInsertUser(c) ==
  /\ auth_request[c].pc = "team:insert_user"
  /\ users' = Append(users, [email |-> auth_request[c].email,
                             team_id |-> auth_request[c].team_id, is_admin |-> TRUE])
  /\ auth_request' = [auth_request EXCEPT ![c].pc = "done", ![c].status = 201]
  /\ UNCHANGED <<teams, team_requests, member_requests, upsert_vars, score_vars,
                 tier_vars, readiness_vars, search_vars, analytics_vars>>

\* auth.py:187-194, 88-94: POST /team/members by a stored admin user
\* (get_current_admin_user); the handler runs up to its first find_one.
add_team_member(c, current_user, email) ==
  /\ ~AuthHandling(c)
  /\ current_user.is_admin
  /\ member_requests < MaxMembers
  /\ member_requests' = member_requests + 1
  /\ auth_request' = [auth_request EXCEPT ![c] =
        [IdleAuthRequest EXCEPT !.op = "add_team_member", !.pc = "member:find_user",
                                !.n = member_requests + 1, !.email = email,
                                !.team_id = current_user.team_id]]
  /\ UNCHANGED <<teams, users, team_requests, upsert_vars, score_vars, tier_vars,
                 readiness_vars, search_vars, analytics_vars>>

\* auth.py:194-199: 400 when the email is registered.
MemberFindUser(c) ==
  /\ auth_request[c].pc = "member:find_user"
  /\ LET req == auth_request[c]
     IN auth_request' = [auth_request EXCEPT ![c] =
          IF FindUserByEmail(users, req.email) # 0
          THEN HTTPException(req, 400, "Email already registered")
          ELSE [req EXCEPT !.pc = "member:find_team"]]
  /\ UNCHANGED <<teams, users, team_requests, member_requests, upsert_vars, score_vars,
                 tier_vars, readiness_vars, search_vars, analytics_vars>>

\* auth.py:209: team["seats_used"] >= team["seat_count"].
SeatsTaken(team) == team.seats_used >= team.seat_count

\* auth.py:202-213: the team is read; 404 without it, 400 when its seats are
\* taken.
MemberFindTeam(c) ==
  /\ auth_request[c].pc = "member:find_team"
  /\ LET req == auth_request[c]
         i == FindTeam(teams, req.team_id)
     IN auth_request' = [auth_request EXCEPT ![c] =
          IF i = 0 THEN HTTPException(req, 404, "Team not found")
          ELSE IF SeatsTaken(teams[i])
               THEN HTTPException([req EXCEPT !.team = teams[i]], 400,
                                  "Team has reached maximum seat count")
               ELSE [req EXCEPT !.pc = "member:insert_user", !.team = teams[i]]]
  /\ UNCHANGED <<teams, users, team_requests, member_requests, upsert_vars, score_vars,
                 tier_vars, readiness_vars, search_vars, analytics_vars>>

\* auth.py:215-234: db.users.insert_one(user_data).
MemberInsertUser(c) ==
  /\ auth_request[c].pc = "member:insert_user"
  /\ users' = Append(users, [email |-> auth_request[c].email,
                             team_id |-> auth_request[c].team_id, is_admin |-> FALSE])
  /\ auth_request' = [auth_request EXCEPT ![c].pc = "member:update_team"]
  /\ UNCHANGED <<teams, team_requests, member_requests, upsert_vars, score_vars,
                 tier_vars, readiness_vars, search_vars, analytics_vars>>

\* auth.py:236-255: update_one({"id": team_id}, {"$inc": {"seats_used": 1}})
\* on the first team with the id; 200.
MemberUpdateTeam(c) ==
  /\ auth_request[c].pc = "member:update_team"
  /\ LET i == FindTeam(teams, auth_request[c].team_id)
     IN teams' = IF i = 0 THEN teams
                 ELSE [teams EXCEPT ![i].seats_used = @ + 1]
  /\ auth_request' = [auth_request EXCEPT ![c].pc = "done", ![c].status = 200]
  /\ UNCHANGED <<users, team_requests, member_requests, upsert_vars, score_vars,
                 tier_vars, readiness_vars, search_vars, analytics_vars>>

AnalyticsIdle ==
  /\ analytics_request = None
  /\ analytics_result = None

MoreIdle == AnalyticsIdle /\ TeamIdle

AnalyticsInit ==
  /\ mongo_tenders \in AnalyticsCollections
  /\ tender_metadata = <<>>
  /\ call = [s \in Sessions |-> IdleCall]
  /\ uuids = 0
  /\ upserts = 0
  /\ once = NoSnap
  /\ last_commit = [t \in TenderIds |-> NoRow]
  /\ overlapped = {}
  /\ failed = {}
  /\ analytics_request \in AnalyticsRequests
  /\ analytics_result = PendingAnalytics

\* analytics.py:14-63: GET /api/analytics/spend-by-buyer.
get_spend_by_buyer ==
  /\ analytics_result.kind = "pending"
  /\ analytics_request.endpoint = "spend-by-buyer"
  /\ \E rows \in SpendByBuyer(mongo_tenders, analytics_request) :
        analytics_result' = [kind |-> "returned", rows |-> rows]
  /\ UNCHANGED <<analytics_request, upsert_vars, score_vars, tier_vars, readiness_vars,
                 search_vars, team_vars>>

\* analytics.py:65-110: GET /api/analytics/spend-by-province.
get_spend_by_province ==
  /\ analytics_result.kind = "pending"
  /\ analytics_request.endpoint = "spend-by-province"
  /\ \E rows \in SpendByProvince(mongo_tenders, analytics_request) :
        analytics_result' = [kind |-> "returned", rows |-> rows]
  /\ UNCHANGED <<analytics_request, upsert_vars, score_vars, tier_vars, readiness_vars,
                 search_vars, team_vars>>

vars == <<upsert_vars, score_vars, other_vars>>

\* The upsert protocol under concurrent callers.
Init == UpsertInit /\ ScoreIdle /\ TierIdle /\ ReadinessIdle /\ SearchIdle /\ MoreIdle

Next ==
  \/ \E s \in Sessions : \E tender_doc \in Payloads : Call(s, tender_doc)
  \/ \E s \in Sessions : MongoReplace(s)
  \/ \E s \in Sessions : Select(s)
  \/ \E s \in Sessions : Commit(s)
  \/ \E s \in Sessions : Raise(s)

Spec == Init /\ [][Next]_vars

\* The scorer applied to every tender/profile pair of the bounded input sets.
ScoreNext == Score

ScoreStart == UpsertInit /\ ScoreInit /\ TierIdle /\ ReadinessIdle /\ SearchIdle /\ MoreIdle

ScoreSpec == ScoreStart /\ [][ScoreNext]_vars

\* The tier of every score from 0 to 100.
TierNext == Recommend

TierStart == UpsertInit /\ ScoreIdle /\ TierInit /\ ReadinessIdle /\ SearchIdle /\ MoreIdle

TierSpec == TierStart /\ [][TierNext]_vars

\* search_tenders on every request and table of the bounded input sets.
SearchNext ==
  \/ Search
  \/ \E term \in MoreTerms : SearchMore(term)

SearchStart == SearchInit /\ ScoreIdle /\ TierIdle /\ ReadinessIdle /\ MoreIdle

SearchSpec == SearchStart /\ [][SearchNext]_vars

\* The profile and readiness handlers under concurrent requests.
ReadinessNext ==
  \/ \E c \in Clients : \E team_id \in Teams : \E profile \in CreateBodies :
        create_company_profile(c, team_id, profile)
  \/ \E c \in Clients : CreateFindOne(c)
  \/ \E c \in Clients : CreateInsertOne(c)
  \/ \E c \in Clients : \E team_id \in Teams : \E profile \in UpdateBodies :
        update_company_profile(c, team_id, profile)
  \/ \E c \in Clients : UpdateFindOne(c)
  \/ \E c \in Clients : UpdateOne(c)
  \/ \E c \in Clients : UpdateRefetch(c)
  \/ \E c \in Clients : \E tender_id \in RequestTenderIds : \E team_id \in Teams :
        check_readiness(c, tender_id, team_id)
  \/ \E c \in Clients : CheckFindProfile(c)
  \/ \E c \in Clients : CheckFindTender(c)
  \/ \E c \in Clients : CheckInsertOne(c)
  \/ \E c \in Clients : \E tender_id \in RequestTenderIds : \E team_id \in Teams :
        get_readiness_score(c, tender_id, team_id)
  \/ \E c \in Clients : GetFindOne(c)

ReadinessStart == ReadinessInit /\ ScoreIdle /\ TierIdle /\ SearchIdle /\ MoreIdle

ReadinessSpec == ReadinessStart /\ [][ReadinessNext]_vars

\* The spend aggregations on every query and collection of the bounded input
\* sets.
AnalyticsNext ==
  \/ get_spend_by_buyer
  \/ get_spend_by_province

AnalyticsStart ==
  AnalyticsInit /\ ScoreIdle /\ TierIdle /\ ReadinessIdle /\ SearchIdle /\ TeamIdle

\* Teams and members under concurrent requests.
TeamNext ==
  \/ \E c \in Clients : \E admin_email \in AdminEmails :
        \E subscription_tier \in SubscriptionTiers :
           create_team(c, admin_email, subscription_tier)
  \/ \E c \in Clients : CreateTeamFindUser(c)
  \/ \E c \in Clients : CreateTeamInsertTeam(c)
  \/ \E c \in Clients : CreateTeamInsertUser(c)
  \/ \E c \in Clients : \E i \in 1..Len(users) : \E email \in MemberEmails :
        add_team_member(c, users[i], email)
  \/ \E c \in Clients : MemberFindUser(c)
  \/ \E c \in Clients : MemberFindTeam(c)
  \/ \E c \in Clients : MemberInsertUser(c)
  \/ \E c \in Clients : MemberUpdateTeam(c)

TeamStart ==
  UpsertInit /\ ScoreIdle /\ TierIdle /\ ReadinessIdle /\ SearchIdle /\ MoreIdle

TeamSpec == TeamStart /\ [][TeamNext]_vars

AnalyticsSpec == AnalyticsStart /\ [][AnalyticsNext]_vars

(***************************************************************************)
(* Properties of the upsert protocol (specification Spec).                 *)
(***************************************************************************)

\* The payload of the call that left the stores as recorded in `once` has been
\* upserted a second time, with no other call in between or meanwhile.
Repeated == once.valid /\ once.repeated

SameStores == mongo_tenders = once.docs /\ tender_metadata = once.rows

\* C1 as stated: for every payload, a second upsert_tender with identical
\* content, no other writer in between, leaves the document store and the
\* metadata store as the first one left them.
C1_IdempotentEveryPayload == Repeated => SameStores

\* C1, amended: for every payload that carries a non-empty id, a second
\* upsert_tender with identical content, no other writer in between, leaves
\* the document store and the metadata store as the first one left them.
C1_IdempotentWithId ==
  (Repeated /\ ~Falsy(once.tender_doc.id)) => SameStores

C1_Witness ==
  /\ Repeated
  /\ ~Falsy(once.tender_doc.id)
  /\ \E s \in Sessions : /\ call[s].pc = "returned"
                         /\ call[s].rerun
                         /\ call[s].tender_doc = once.tender_doc
                         /\ call[s].outcome = "updated"

\* Every call on the tender has returned, none is in flight.
Settled(tender_id) == \A s \in Sessions : InFlight(s) => call[s].tender_id # tender_id

\* C2 as stated: once every upsert_tender call for a tender_id has returned
\* (none raised), the metadata row equals the projection of the tender's
\* document, also when the calls were concurrent.
C2_AgreeAfterConcurrentCalls ==
  \A t \in TenderIds :
     (Settled(t) /\ t \notin failed /\ DocsOf(mongo_tenders, t) # {})
        => Agree(mongo_tenders, tender_metadata, t)

\* C2, amended: once every upsert_tender call for a tender_id has returned
\* (none raised), the metadata row equals the projection of the tender's
\* document provided no two of the calls made since the stores last agreed
\* through a call running by itself were in flight at the same time.
C2_AgreeAfterSequentialCalls ==
  \A t \in TenderIds :
     (Settled(t) /\ t \notin failed /\ t \notin overlapped /\ DocsOf(mongo_tenders, t) # {})
        => Agree(mongo_tenders, tender_metadata, t)

C2_Witness ==
  \E s \in Sessions :
     /\ call[s].pc = "returned"
     /\ call[s].outcome = "updated"
     /\ Settled(call[s].tender_id)
     /\ call[s].tender_id \notin failed \cup overlapped
     /\ Agree(mongo_tenders, tender_metadata, call[s].tender_id)

\* C3: in every reachable state every metadata row's tender_id is the _id of a
\* document of the document store.
C3_RowHasDocument ==
  \A i \in 1..Len(tender_metadata) :
     DocsOf(mongo_tenders, tender_metadata[i].tender_id) # {}

C3_Witness ==
  /\ Len(tender_metadata) >= 1
  /\ \E s \in Sessions : call[s].outcome = "rolled_back"
  /\ \E s \in Sessions : call[s].outcome = "raised"

\* C4: when the tender's row was missing or disagreed with its document as the
\* call started, an upsert_tender that runs to its return with no other upsert
\* of that tender in flight leaves the row equal to the projection of the
\* document it wrote.
C4_SelfHeals ==
  [][\A s \in Sessions :
       (call[s].pc = "commit" /\ call'[s].pc = "returned" /\ call[s].solo /\ call[s].stale)
          => /\ Agree(mongo_tenders', tender_metadata', call[s].tender_id)
             /\ MongoDocument(call[s].tender_id, call[s].tender_doc) \in mongo_tenders']_vars

C4_Witness ==
  \E s \in Sessions :
     /\ call[s].pc = "returned"
     /\ call[s].solo
     /\ call[s].stale
     /\ call[s].outcome = "updated"
     /\ Agree(mongo_tenders, tender_metadata, call[s].tender_id)

\* The commit of the call is about to fail with a uniqueness violation.
CommitViolatesUnique(s) ==
  /\ call[s].pc = "commit"
  /\ call[s].existing = 0
  /\ UniqueViolation(tender_metadata, MetadataRow(call[s].tender_id, call[s].tender_doc))

\* C5: when the commit fails with a uniqueness violation the call returns the
\* tender_id without raising, the metadata store is as before the attempt, and
\* the document stays in the document store.
C5_RollbackKeepsStores ==
  [][\A s \in Sessions :
       (CommitViolatesUnique(s) /\ call'[s].pc \notin {"commit", "raised"})
          => /\ call'[s].pc = "returned"
             /\ call'[s].result = call[s].tender_id
             /\ tender_metadata' = tender_metadata
             /\ mongo_tenders' = mongo_tenders
             /\ DocsOf(mongo_tenders', call[s].tender_id) # {}]_vars

C5_Witness ==
  \E s \in Sessions : call[s].pc = "returned" /\ call[s].outcome = "rolled_back"

\* C6 as stated: after all concurrent calls on a tender_id have returned, its
\* metadata row holds the values of the call whose session.commit() ran last.
C6_LastRelationalWriteWins ==
  \A t \in TenderIds :
     (Settled(t) /\ last_commit[t] # NoRow)
        => \A i \in RowsOf(tender_metadata, t) : tender_metadata[i] = last_commit[t]

\* C7 as stated: the readers' lookups by tender_id find the document of every
\* tender upsert_tender stored, and search scores its stored description.
C7_ReadersFindUpserted ==
  \A d \in mongo_tenders :
     /\ ~TenderNotFound(mongo_tenders, d._id)
     /\ SearchDescription(mongo_tenders, {d._id}, d._id) = d.description

(***************************************************************************)
(* Properties of the suitability scorer (specification ScoreSpec).         *)
(***************************************************************************)

\* C8: the score calculate_suitability_score returns is an integer from 0 to 100.
C8_ScoreBounded ==
  scored.kind = "returned" => scored.score \in 0..100

C8_Witness ==
  /\ scored.kind = "returned"
  /\ scored.score = 100
  /\ Len(scored.checklist) = 5

\* The criteria for which both sides carry the relevant field: the tender its
\* requirement, the profile the field it is matched against.  The tender
\* declares a CIDB requirement when it carries a true cidb_required.
Applicable(tender, profile) ==
  {c \in {"Industry sector match", "Operates in province", "Has required CIDB grade",
          "Meets BBBEE level requirement", "Has required experience"} :
     \/ /\ c = "Industry sector match"
        /\ "industry_sector" \in DOMAIN tender
        /\ "industry_sector" \in DOMAIN profile
     \/ /\ c = "Operates in province"
        /\ "province" \in DOMAIN tender
        /\ "geographic_coverage" \in DOMAIN profile
     \/ /\ c = "Has required CIDB grade"
        /\ "cidb_required" \in DOMAIN tender
        /\ tender["cidb_required"]
        /\ "cidb_grade" \in DOMAIN profile
     \/ /\ c = "Meets BBBEE level requirement"
        /\ "bbbee_level_required" \in DOMAIN tender
        /\ "bbbee_level" \in DOMAIN profile
     \/ /\ c = "Has required experience"
        /\ "min_years_experience" \in DOMAIN tender
        /\ "years_experience" \in DOMAIN profile}

TableWeight(label) ==
  CASE label = "Industry sector match" -> 5
    [] label = "Operates in province" -> 4
    [] label = "Has required CIDB grade" -> 5
    [] label = "Meets BBBEE level requirement" -> 4
    [] label = "Has required experience" -> 3

RECURSIVE SumOver(_, _)
SumOver(weight, labels) ==
  IF labels = {} THEN 0
  ELSE LET c == CHOOSE c \in labels : TRUE
       IN weight[c] + SumOver(weight, labels \ {c})

ChecklistLabels(checklist) == {checklist[i].criterion[1] : i \in 1..Len(checklist)}

MatchedLabels(checklist) ==
  {checklist[i].criterion[1] : i \in {j \in 1..Len(checklist) : checklist[j].matched}}

Nearest(achieved, possible) ==
  {n \in 0..100 :
     LET d == achieved * 100 - n * possible
     IN (IF d < 0 THEN -d ELSE d) * 2 <= possible}

\* C11 as stated: when at least one criterion is applicable the score is
\* achieved / possible * 100 rounded to the nearest integer.
C11_ScoreRounded ==
  (scored.kind = "returned" /\ scored.max_points > 0)
     => scored.score \in Nearest(scored.total_points, scored.max_points)

(***************************************************************************)
\* The place of each criterion in the spec's table.
TableRank(label) ==
  CASE label = "Industry sector match" -> 1
    [] label = "Operates in province" -> 2
    [] label = "Has required CIDB grade" -> 3
    [] label = "Meets BBBEE level requirement" -> 4
    [] label = "Has required experience" -> 5

RECURSIVE SumImportance(_, _)
SumImportance(checklist, positions) ==
  IF positions = {} THEN 0
  ELSE LET i == CHOOSE i \in positions : TRUE
       IN checklist[i].importance + SumImportance(checklist, positions \ {i})

\* C25: the returned checklist lists the evaluated criteria in the order
\* industry sector, geographic coverage, CIDB grade, B-BBEE level, years of
\* experience; each item carries the weight 5, 4, 5, 4, 3 of its criterion;
\* achieved is the sum of the weights of the matched items and possible the
\* sum of the weights of all items.
C25_ChecklistOrdered ==
  scored.kind = "returned" =>
     LET checklist == scored.checklist
         items == 1..Len(checklist)
     IN /\ \A i, j \in items :
              i < j => TableRank(checklist[i].criterion[1]) < TableRank(checklist[j].criterion[1])
        /\ \A i \in items :
              checklist[i].importance
                 = <<5, 4, 5, 4, 3>>[TableRank(checklist[i].criterion[1])]
        /\ scored.total_points
              = SumImportance(checklist, {i \in items : checklist[i].matched})
        /\ scored.max_points = SumImportance(checklist, items)

C25_Witness ==
  /\ scored.kind = "returned"
  /\ Len(scored.checklist) = 4
  /\ "Has required CIDB grade" \notin ChecklistLabels(scored.checklist)
  /\ scored.checklist[3].criterion[1] = "Meets BBBEE level requirement"
  /\ ~scored.checklist[3].matched
  /\ scored.checklist[4].criterion[1] = "Has required experience"
  /\ scored.total_points = 12
  /\ scored.max_points = 16

\* The grades whose trailing token is no integer: a word, or no token at all.
UnparsableGrades == {"Grade seven", " "}

\* The grade the CIDB criterion reads from the tender ("" when it has none).
RequiredGrade(tender) ==
  IF "cidb_grade" \in DOMAIN tender THEN tender["cidb_grade"] ELSE ""

\* The CIDB criterion is evaluated and a grade does not parse.
CidbUnparsable(tender, profile) ==
  /\ "Has required CIDB grade" \in Applicable(tender, profile)
  /\ \/ RequiredGrade(tender) \in UnparsableGrades
     \/ profile["cidb_grade"] \in UnparsableGrades

\* The B-BBEE criterion is evaluated with a level that is None (C15).
NoneLevelCompared(tender, profile) ==
  /\ "Meets BBBEE level requirement" \in Applicable(tender, profile)
  /\ tender["bbbee_level_required"] = {} \/ profile["bbbee_level"] = {}

\* C26: when the CIDB criterion is evaluated and the tender's or the profile's
\* grade does not parse, the scorer does not raise on that account, the
\* checklist has the CIDB criterion as not matched with weight 5, and possible
\* counts the 5 while achieved does not.
C26_CidbParseFailure ==
  CidbUnparsable(score_tender, score_profile) =>
     /\ scored.kind = "raised" => NoneLevelCompared(score_tender, score_profile)
     /\ scored.kind = "returned" =>
          LET checklist == scored.checklist
              cidb == {i \in 1..Len(checklist) :
                         checklist[i].criterion[1] = "Has required CIDB grade"}
              others == (1..Len(checklist)) \ cidb
          IN /\ Cardinality(cidb) = 1
             /\ \A i \in cidb : ~checklist[i].matched /\ checklist[i].importance = 5
             /\ scored.max_points = 5 + SumImportance(checklist, others)
             /\ scored.total_points
                   = SumImportance(checklist, {i \in others : checklist[i].matched})

C26_Witness ==
  /\ scored.kind = "returned"
  /\ CidbUnparsable(score_tender, score_profile)
  /\ RequiredGrade(score_tender) = "Grade seven"
  /\ "cidb_grade" \in DOMAIN score_profile
  /\ score_profile["cidb_grade"] = "Grade 9"
  /\ Len(scored.checklist) = 5
  /\ ~scored.checklist[3].matched
  /\ scored.max_points = 21
  /\ scored.total_points = 16

\* C27: when the B-BBEE criterion is evaluated on two levels, the scorer does
\* not raise and the checklist has the criterion once, matched exactly when
\* the profile's level is less than or equal to the tender's required level.
C27_BbbeeLowerIsBetter ==
  ("Meets BBBEE level requirement" \in Applicable(score_tender, score_profile)
     /\ ~NoneLevelCompared(score_tender, score_profile))
    => /\ scored.kind # "raised"
       /\ scored.kind = "returned" =>
            LET checklist == scored.checklist
                bbbee == {i \in 1..Len(checklist) :
                            checklist[i].criterion[1] = "Meets BBBEE level requirement"}
            IN /\ Cardinality(bbbee) = 1
               /\ \A i \in bbbee :
                    \A level \in score_profile["bbbee_level"] :
                      \A required \in score_tender["bbbee_level_required"] :
                         checklist[i].matched <=> (level <= required)

C27_Witness ==
  /\ scored.kind = "returned"
  /\ "bbbee_level_required" \in DOMAIN score_tender
  /\ "bbbee_level" \in DOMAIN score_profile
  /\ score_tender["bbbee_level_required"] = {2}
  /\ score_profile["bbbee_level"] = {2}
  /\ \E i \in 1..Len(scored.checklist) :
        /\ scored.checklist[i].criterion[1] = "Meets BBBEE level requirement"
        /\ scored.checklist[i].matched

(* Properties of the recommendation tiers (specification TierSpec).        *)
(***************************************************************************)
Tiers == {"Highly suitable - strong match for requirements",
          "Suitable - good match with some gaps",
          "Moderately suitable - significant gaps exist",
          "Not suitable - major requirements not met"}

\* C12: the recommendation depends on the score alone: 80 and above is the
\* highly suitable tier, 60 to 79 the suitable tier, 40 to 59 the moderately
\* suitable tier, below 40 the not suitable tier; every score from 0 to 100
\* gets exactly one of the four.
C12_TierOfScore ==
  /\ tier # None =>
       /\ tier \in Tiers
       /\ (tier = "Highly suitable - strong match for requirements") = (tier_score >= 80)
       /\ (tier = "Suitable - good match with some gaps")
             = (tier_score >= 60 /\ tier_score < 80)
       /\ (tier = "Moderately suitable - significant gaps exist")
             = (tier_score >= 40 /\ tier_score < 60)
       /\ (tier = "Not suitable - major requirements not met") = (tier_score < 40)
  /\ scored.kind = "returned" =>
       /\ scored.recommendation \in Tiers
       /\ (scored.recommendation = "Highly suitable - strong match for requirements")
             = (scored.score >= 80)
       /\ (scored.recommendation = "Suitable - good match with some gaps")
             = (scored.score >= 60 /\ scored.score < 80)
       /\ (scored.recommendation = "Moderately suitable - significant gaps exist")
             = (scored.score >= 40 /\ scored.score < 60)
       /\ (scored.recommendation = "Not suitable - major requirements not met")
             = (scored.score < 40)

C12_Witness ==
  /\ tier_score = 80
  /\ tier = "Highly suitable - strong match for requirements"

\* A profile as create_company_profile stores it: profile.dict() carries every
\* field of CompanyProfileBase, the unset optional ones as None.
StoredProfile(profile) == DOMAIN profile = ProfileKeys

\* C15 as stated, for the scorer: calculate_suitability_score returns for
\* every tender and every stored profile, also when the profile's optional
\* bbbee_level or cidb_grade is unset (None).
C15_ScorerNeverRaises ==
  StoredProfile(score_profile) => scored.kind # "raised"

(***************************************************************************)
(* Properties of the profile and readiness handlers (specification         *)
(* ReadinessSpec).                                                         *)
(***************************************************************************)
RecordsOf(scores, pair) ==
  {i \in 1..Len(scores) : scores[i].tender_id = pair[1] /\ scores[i].team_id = pair[2]}

Computed(record) ==
  <<record.suitability_score, record.checklist, record.recommendation>>

\* C13 as stated: after successful check_readiness calls the readiness store
\* holds exactly one record per (tender_id, team_id), and get_readiness_score
\* returns what the pair's most recent check computed.
C13_CheckOverwrites ==
  /\ \A pair \in Pairs :
        Cardinality(RecordsOf(readiness_scores, pair))
           = IF latest[pair] = NoResult THEN 0 ELSE 1
  /\ \A c \in Clients :
        (request[c].op = "get_readiness_score" /\ request[c].status = 200)
           => Computed(request[c].result) = Computed(request[c].expected)

\* The response is a not-found error that carries no score.
NotFound(req) == req.pc = "done" /\ req.status = 404 /\ req.result = NoResult

\* C14: check_readiness answers not-found, without a score and without
\* touching the readiness store, when the team has no stored profile or no
\* document is stored for the tender_id; get_readiness_score answers
\* not-found when the pair has no record.
C14_NotFound ==
  [][\A c \in Clients :
       LET req == request[c]
           pair == <<req.tender_id, req.team_id>>
       IN request'[c] # req =>
            /\ (/\ req.pc = "check:find_profile"
                /\ \A i \in 1..Len(company_profiles) : company_profiles[i].team_id # req.team_id)
                  => /\ NotFound(request'[c])
                     /\ request'[c].detail = "Company profile not found"
                     /\ readiness_scores' = readiness_scores
            /\ (/\ req.pc = "check:find_tender"
                /\ \A d \in mongo_tenders : d.tender_id # req.tender_id)
                  => /\ NotFound(request'[c])
                     /\ request'[c].detail = "Tender not found"
                     /\ readiness_scores' = readiness_scores
            /\ (req.pc = "get:find_one" /\ RecordsOf(readiness_scores, pair) = {})
                  => /\ NotFound(request'[c])
                     /\ request'[c].detail = "Readiness score not found"]_vars

C14_Witness ==
  /\ \E c \in Clients : /\ request[c].op = "check_readiness"
                         /\ request[c].detail = "Tender not found"
  /\ \E c \in Clients : /\ request[c].op = "get_readiness_score"
                         /\ request[c].detail = "Readiness score not found"
  /\ company_profiles # <<>>
  /\ readiness_scores = <<>>

\* C16 as stated: under any interleaving of create and update requests the
\* profile store holds at most one profile per team_id, and a create for a
\* team that has a profile is rejected and leaves the store as it is.
C16_NeverDuplicated ==
  /\ [](\A team_id \in Teams :
          Cardinality({i \in 1..Len(company_profiles) :
                         company_profiles[i].team_id = team_id}) <= 1)
  /\ [][\A c \in Clients :
          (/\ request[c].op = "create_company_profile"
           /\ Handling(c)
           /\ request'[c] # request[c]
           /\ request'[c].pc = "done"
           /\ FindProfile(company_profiles, request[c].team_id) # 0)
             => /\ request'[c].status = 400
                /\ company_profiles' = company_profiles]_vars

(***************************************************************************)
(* Properties of search (specification SearchSpec).                        *)
(***************************************************************************)
\* The terms of a keyword string: its maximal runs of non-whitespace
\* characters, each given by its first and last position.
TermRuns(str) ==
  {run \in (1..Len(str)) \X (1..Len(str)) :
     /\ run[1] <= run[2]
     /\ \A k \in run[1]..run[2] : str[k] \notin Whitespace
     /\ run[1] = 1 \/ str[run[1] - 1] \in Whitespace
     /\ run[2] = Len(str) \/ str[run[2] + 1] \in Whitespace}

\* The characters of `term` occur in `description`, next to each other.
Occurs(term, description) ==
  \E o \in 0..(Len(description) - Len(term)) :
     \A k \in 1..Len(term) : description[o + k] = term[k]

\* The lowercased description search scores for the tender.
LoweredDescription(tender_id) ==
  LowerChars(MongoDescription(mongo_tenders, {tender_id}, tender_id))

Position(rows, tender_id) == CHOOSE i \in 1..Len(rows) : rows[i].tender_id = tender_id

\* C18: the returned sequence is ordered by non-increasing relevance, and
\* results of equal relevance keep the order in which the metadata store
\* returned their rows.
C18_SortedStable ==
  search_results.kind = "returned" =>
     LET results == search_results.results
     IN \A i, j \in 1..Len(results) :
           i < j =>
             /\ ~KeyLess(results[i].relevance_score, results[j].relevance_score)
             /\ ~KeyLess(results[j].relevance_score, results[i].relevance_score)
                  => Position(tender_metadata, results[i].tender_id)
                       < Position(tender_metadata, results[j].tender_id)

C18_Witness ==
  /\ search_results.kind = "returned"
  /\ Len(search_results.results) = 3
  /\ LET results == search_results.results
     IN /\ KeyLess(results[2].relevance_score, results[1].relevance_score)
        /\ results[2].relevance_score = results[3].relevance_score
        /\ Position(tender_metadata, results[1].tender_id) = 3

\* C19: a second search whose keywords are the first one's with one more
\* keyword appended gives every candidate in whose description that keyword
\* occurs (case ignored) a relevance at least that of the first search.
C19_Monotone ==
  (search_results.kind = "returned" /\ search_more.kind = "returned") =>
     \A i \in 1..Len(search_results.results) : \A j \in 1..Len(search_more.results) :
        LET first == search_results.results[i]
            second == search_more.results[j]
        IN (/\ first.tender_id = second.tender_id
            /\ Occurs(LowerChars(search_more.term), LoweredDescription(first.tender_id)))
              => ~KeyLess(second.relevance_score, first.relevance_score)

C19_Witness ==
  /\ search_results.kind = "returned"
  /\ search_more.kind = "returned"
  /\ \E i \in 1..Len(search_results.results) : \E j \in 1..Len(search_more.results) :
        /\ search_results.results[i].tender_id = search_more.results[j].tender_id
        /\ Occurs(LowerChars(search_more.term),
                  LoweredDescription(search_results.results[i].tender_id))
        /\ search_results.results[i].relevance_score.num > 0
        /\ KeyLess(search_results.results[i].relevance_score,
                   search_more.results[j].relevance_score)

\* The row's interval [budget_min, budget_max] reaches into the requested
\* one: budget_max >= min_budget when min_budget is given, budget_min <=
\* max_budget when max_budget is given (a NULL bound satisfies neither).
Intersects(row, min_budget, max_budget) ==
  /\ min_budget # {} =>
        /\ row.budget_max # {}
        /\ \A x \in row.budget_max : \A m \in min_budget : ~(x < m)
  /\ max_budget # {} =>
        /\ row.budget_min # {}
        /\ \A x \in row.budget_min : \A m \in max_budget : ~(x > m)

\* C20: the tenders a search returns are, among the rows its other filters
\* select, exactly those whose budget interval intersects the requested one.
C20_BudgetOverlap ==
  search_results.kind = "returned" =>
     LET others == Candidates(tender_metadata,
                              [search_request EXCEPT !.min_budget = {}, !.max_budget = {}])
     IN {search_results.results[i].tender_id : i \in 1..Len(search_results.results)}
          = {others[i].tender_id :
               i \in {k \in 1..Len(others) :
                        Intersects(others[k], search_request.min_budget,
                                   search_request.max_budget)}}

C20_Witness ==
  /\ search_results.kind = "returned"
  /\ search_request.min_budget = {400}
  /\ search_request.max_budget = {}
  /\ \E i \in 1..Len(tender_metadata) : tender_metadata[i].tender_id = "T5"
  /\ \E i \in 1..Len(tender_metadata) : tender_metadata[i].tender_id = "T2"
  /\ {search_results.results[i].tender_id : i \in 1..Len(search_results.results)} = {"T1"}

(***************************************************************************)
(* Further properties of the upsert protocol (specification Spec).         *)
(***************************************************************************)

\* The call is past its replace_one (crud.py:25): it awaits the select or the
\* commit, or it has returned.
PastReplaceOne(s) == call[s].pc \in {"execute", "commit", "returned"}

\* C21: in every execution of upsert_tender the document is written before
\* the metadata store is read or written: a call that awaits its select or its
\* commit, or has returned, has its document in the document store; the select
\* and the commit leave the document store alone; and the metadata store
\* changes only in the commit of a call whose document is stored.
C21_DocumentFirst ==
  /\ [](\A s \in Sessions :
          PastReplaceOne(s) => DocsOf(mongo_tenders, call[s].tender_id) # {})
  /\ [][\A s \in Sessions :
          (call[s].pc \in {"execute", "commit"} /\ call'[s].pc \in {"commit", "returned"}
             /\ call'[s].pc # call[s].pc)
            => /\ mongo_tenders' = mongo_tenders
               /\ DocsOf(mongo_tenders, call[s].tender_id) # {}]_vars
  /\ [][tender_metadata' # tender_metadata
          => \E s \in Sessions :
                /\ call[s].pc = "commit"
                /\ call'[s].pc = "returned"
                /\ DocsOf(mongo_tenders, call[s].tender_id) # {}]_vars

C21_Witness ==
  \E s \in Sessions :
     /\ call[s].pc = "returned"
     /\ call[s].outcome = "inserted"
     /\ MongoDocument(call[s].tender_id, call[s].tender_doc) \in mongo_tenders
     /\ RowsOf(tender_metadata, call[s].tender_id) # {}
     /\ \E o \in Sessions \ {s} : call[o].pc = "execute"

\* The keys in use: the _id of every stored document, the tender_id of every
\* row, and the tender_id of every call in flight.
KeysInUse ==
  {d._id : d \in mongo_tenders}
    \cup {tender_metadata[i].tender_id : i \in 1..Len(tender_metadata)}
    \cup {call[o].tender_id : o \in {x \in Sessions : InFlight(x)}}

\* C22: upsert_tender takes the payload's id as tender_id when the payload
\* carries a (non-empty) one, and otherwise an identifier that is the key of no
\* stored tender and of no call in flight; its document is written under that
\* tender_id; it returns that tender_id, under which the document is stored
\* and, when the commit inserted or updated, its row.
C22_ReturnsKey ==
  /\ [][\A s \in Sessions :
          (~InFlight(s) /\ call'[s].pc = "replace_one")
            => IF Falsy(call'[s].tender_doc.id)
               THEN call'[s].tender_id \notin KeysInUse
               ELSE call'[s].tender_id = call'[s].tender_doc.id]_vars
  /\ [][\A s \in Sessions :
          (call[s].pc = "replace_one" /\ call'[s].pc = "execute")
            => \E d \in mongo_tenders' :
                  /\ d._id = call[s].tender_id
                  /\ d.raw = call[s].tender_doc]_vars
  /\ [][\A s \in Sessions :
          (call[s].pc = "commit" /\ call'[s].pc = "returned")
            => /\ call'[s].result = call[s].tender_id
               /\ ~Falsy(call[s].tender_doc.id) => call'[s].result = call[s].tender_doc.id
               /\ DocsOf(mongo_tenders', call'[s].result) # {}
               /\ call'[s].outcome \in {"inserted", "updated"}
                    => \E i \in RowsOf(tender_metadata', call'[s].result) :
                          tender_metadata'[i]
                            = MetadataRow(call'[s].result, call[s].tender_doc)]_vars

C22_Witness ==
  /\ \E s \in Sessions :
        /\ call[s].pc = "returned"
        /\ Falsy(call[s].tender_doc.id)
        /\ call[s].outcome = "inserted"
        /\ call[s].result = UuidPool[1]
        /\ DocsOf(mongo_tenders, "T1") # {}
        /\ MongoDocument(call[s].result, call[s].tender_doc) \in mongo_tenders
  /\ \E s \in Sessions :
        /\ call[s].pc = "returned"
        /\ call[s].result = "T1"
        /\ call[s].outcome = "updated"

\* The payload's value.amount when value is an object, null when value is
\* absent or not an object.
ValueAmount(tender_doc) ==
  CASE tender_doc.value.kind = "dict" -> tender_doc.value.amount
    [] tender_doc.value.kind \in {"other", "absent"} -> {}

\* C23: the row an upsert_tender commits (inserted or updated) has budget_min
\* and budget_max both equal to the payload's value.amount when value is an
\* object and both null otherwise; the two bounds are equal in every row of
\* the metadata store.
C23_BudgetBounds ==
  /\ [](\A i \in 1..Len(tender_metadata) :
           tender_metadata[i].budget_min = tender_metadata[i].budget_max)
  /\ [][\A s \in Sessions :
          (call[s].pc = "commit" /\ call'[s].pc = "returned"
             /\ call'[s].outcome \in {"inserted", "updated"})
            => /\ RowsOf(tender_metadata', call[s].tender_id) # {}
               /\ \A i \in RowsOf(tender_metadata', call[s].tender_id) :
                     /\ tender_metadata'[i].budget_min = ValueAmount(call[s].tender_doc)
                     /\ tender_metadata'[i].budget_max = ValueAmount(call[s].tender_doc)]_vars

C23_Witness ==
  /\ \E s \in Sessions :
        /\ call[s].pc = "returned"
        /\ call[s].outcome = "updated"
        /\ call[s].tender_doc.value = [kind |-> "dict", amount |-> {100}]
        /\ \E i \in RowsOf(tender_metadata, call[s].tender_id) :
              /\ tender_metadata[i].budget_min = {100}
              /\ tender_metadata[i].budget_max = {100}
  /\ \E s \in Sessions :
        /\ call[s].pc = "returned"
        /\ call[s].outcome = "inserted"
        /\ call[s].tender_doc.value.kind = "other"
        /\ \E i \in RowsOf(tender_metadata, call[s].tender_id) :
              tender_metadata[i].budget_min = {} /\ tender_metadata[i].budget_max = {}

\* The endDate strings that are ISO 8601 dates (after Z is read as +00:00).
ValidEndDates == {"2024-06-01T00:00:00Z", "2024-06-01T00:00:00+00:00"}

\* The payload has a tenderPeriod.endDate that cannot be parsed.
Unparsable(tender_doc) ==
  /\ tender_doc.tenderPeriod.kind = "dict"
  /\ ~Falsy(tender_doc.tenderPeriod.endDate)
  /\ tender_doc.tenderPeriod.endDate \notin ValidEndDates

\* The same payload with an endDate that parses.
WithValidEndDate(tender_doc) ==
  [tender_doc EXCEPT !.tenderPeriod = [kind |-> "dict", endDate |-> "2024-06-01T00:00:00Z"]]

\* C24: a payload whose tenderPeriod.endDate cannot be parsed is ingested:
\* the call starts without raising, writes its document with a null deadline
\* and its row with a null deadline, every other derived field being what the
\* same payload with a valid date gives, and returns the tender_id.
C24_BadDateIngested ==
  /\ [][\A s \in Sessions :
          (~InFlight(s) /\ call'[s].pc # call[s].pc /\ Unparsable(call'[s].tender_doc))
            => call'[s].pc = "replace_one"]_vars
  /\ [][\A s \in Sessions :
          (call[s].pc = "replace_one" /\ call'[s].pc = "execute"
             /\ Unparsable(call[s].tender_doc))
            => \E d \in mongo_tenders' :
                  /\ d._id = call[s].tender_id
                  /\ d.raw = call[s].tender_doc
                  /\ d.deadline = None
                  /\ [d EXCEPT !.deadline = None, !.raw = None]
                       = [MongoDocument(call[s].tender_id,
                                        WithValidEndDate(call[s].tender_doc))
                            EXCEPT !.deadline = None, !.raw = None]]_vars
  /\ [][\A s \in Sessions :
          (call[s].pc = "commit" /\ call'[s].pc # "commit"
             /\ call'[s].outcome # "raised" /\ Unparsable(call[s].tender_doc))
            => /\ call'[s].pc = "returned"
               /\ call'[s].result = call[s].tender_id
               /\ call'[s].outcome \in {"inserted", "updated"}
                    => \E i \in RowsOf(tender_metadata', call[s].tender_id) :
                          /\ tender_metadata'[i].deadline = NoDate
                          /\ [tender_metadata'[i] EXCEPT !.deadline = NoDate]
                               = [MetadataRow(call[s].tender_id,
                                              WithValidEndDate(call[s].tender_doc))
                                    EXCEPT !.deadline = NoDate]]_vars

C24_Witness ==
  \E s \in Sessions :
     /\ call[s].pc = "returned"
     /\ Unparsable(call[s].tender_doc)
     /\ call[s].outcome = "inserted"
     /\ call[s].result = "T1"
     /\ \E d \in DocsOf(mongo_tenders, "T1") : d.deadline = None /\ d.buyer = "Dept B"
     /\ \E i \in RowsOf(tender_metadata, "T1") :
           tender_metadata[i].deadline = NoDate /\ tender_metadata[i].buyer = "Dept B"

\* C28: under any interleaving of upsert_tender calls the metadata store has
\* at most one row per tender_id: a commit adds no row for a tender_id that
\* has one, a call that found the row updates it where it is, and after any
\* commit (two calls racing to insert included) the tender_id has exactly one
\* row.
C28_OneRowPerTender ==
  /\ [](\A t \in TenderIds : Cardinality(RowsOf(tender_metadata, t)) <= 1)
  /\ [][\A s \in Sessions :
          (call[s].pc = "commit" /\ call'[s].pc = "returned")
            => LET t == call[s].tender_id
               IN /\ Cardinality(RowsOf(tender_metadata', t)) = 1
                  /\ RowsOf(tender_metadata, t) # {}
                       => /\ Len(tender_metadata') = Len(tender_metadata)
                          /\ RowsOf(tender_metadata', t) = RowsOf(tender_metadata, t)
                  /\ call[s].existing # 0
                       => /\ call'[s].outcome = "updated"
                          /\ tender_metadata'[call[s].existing]
                               = MetadataRow(t, call[s].tender_doc)
                          /\ \A i \in 1..Len(tender_metadata) :
                                i # call[s].existing
                                  => tender_metadata'[i] = tender_metadata[i]]_vars

C28_Witness ==
  \E s, o \in Sessions :
     /\ s # o
     /\ call[s].pc = "returned"
     /\ call[o].pc = "returned"
     /\ call[s].tender_id = call[o].tender_id
     /\ call[s].outcome = "inserted"
     /\ call[o].outcome = "rolled_back"
     /\ Cardinality(RowsOf(tender_metadata, call[s].tender_id)) = 1

(***************************************************************************)
(* Properties of the spend aggregations (specification AnalyticsSpec).     *)
(***************************************************************************)

\* The field the query groups by.
Dimension(req) == IF req.endpoint = "spend-by-buyer" THEN "buyer" ELSE "province"

\* The tender lies in the query's date range: always when the query gives no
\* date, else when the tender has a date on a day from start_date to end_date.
InDateRange(d, req) ==
  \/ req.start_date = {} /\ req.end_date = {}
  \/ /\ "date" \in DOMAIN d
     /\ d.date # {}
     /\ \A dt \in d.date : /\ \A start \in req.start_date : start <= dt.day
                           /\ \A end \in req.end_date : dt.day <= end

\* The tenders in the date range whose buyer (province) is the value.
TendersOf(value, req) ==
  {d \in mongo_tenders :
     /\ InDateRange(d, req)
     /\ Dimension(req) \in DOMAIN d
     /\ d[Dimension(req)] = value}

\* The distinct non-null buyers (provinces) among the tenders in the range.
DistinctValues(req) ==
  {d[Dimension(req)] :
     d \in {d \in mongo_tenders :
              /\ InDateRange(d, req)
              /\ Dimension(req) \in DOMAIN d
              /\ d[Dimension(req)] # None}}

AtMost(n, m) == IF n < m THEN n ELSE m

\* What the claim says of both aggregations: every returned group is the
\* group of a distinct non-null value among the tenders in the range, no
\* value has two groups, tender_count is the number of the group's tenders,
\* and total_spend does not increase along the list.
GroupsAsClaimed(req, rows) ==
  LET key(i) == rows[i][Dimension(req)]
  IN /\ \A i \in 1..Len(rows) : key(i) \in DistinctValues(req)
     /\ \A i, j \in 1..Len(rows) : i # j => key(i) # key(j)
     /\ \A i \in 1..Len(rows) :
           rows[i].tender_count = Cardinality(TendersOf(key(i), req))
     /\ \A i, j \in 1..Len(rows) : i < j => rows[i].total_spend >= rows[j].total_spend

\* C29 as stated: both aggregations return one group per distinct non-null
\* buyer (province) among the tenders in the date range, never a group for a
\* null or absent value, with the group's number of tenders, in order of
\* non-increasing total spend; spend-by-buyer returns at most limit groups
\* and spend-by-province every group.
C29_SpendGroups ==
  analytics_result.kind = "returned" =>
     LET req == analytics_request
         rows == analytics_result.rows
     IN /\ GroupsAsClaimed(req, rows)
        /\ req.endpoint = "spend-by-buyer" =>
              \A limit \in req.limit :
                 Len(rows) = AtMost(Cardinality(DistinctValues(req)), limit)
        /\ req.endpoint = "spend-by-province" =>
              Len(rows) = Cardinality(DistinctValues(req))

\* C29, amended: as stated, but spend-by-province returns at most 100
\* groups.
C29_SpendGroupsCapped ==
  analytics_result.kind = "returned" =>
     LET req == analytics_request
         rows == analytics_result.rows
     IN /\ GroupsAsClaimed(req, rows)
        /\ req.endpoint = "spend-by-buyer" =>
              \A limit \in req.limit :
                 Len(rows) = AtMost(Cardinality(DistinctValues(req)), limit)
        /\ req.endpoint = "spend-by-province" =>
              Len(rows) = AtMost(Cardinality(DistinctValues(req)), 100)

C29_Witness ==
  /\ analytics_result.kind = "returned"
  /\ analytics_request.endpoint = "spend-by-buyer"
  /\ analytics_request.start_date = {}
  /\ analytics_request.end_date = {20}
  /\ analytics_request.limit = {2}
  /\ {d._id : d \in mongo_tenders} = {"A1", "A3", "A4"}
  /\ Len(analytics_result.rows) = 2
  /\ analytics_result.rows[1].buyer = "Dept B"
  /\ analytics_result.rows[2].buyer = "Dept A"
  /\ analytics_result.rows[2].tender_count = 1

(***************************************************************************)
(* Properties of teams and members (specification TeamSpec).               *)
(***************************************************************************)

\* No request that concerns the team is in flight.
TeamQuiet(team_id) ==
  \A c \in Clients : AuthHandling(c) => auth_request[c].team_id # team_id

UsersOf(team_id) == {i \in 1..Len(users) : users[i].team_id = team_id}

\* C30 as stated: under any interleaving of add_team_member requests a
\* team's seats_used never exceeds its seat_count and, no request for the
\* team being in flight, equals the number of the team's users; a request
\* that finds seats_used >= seat_count is rejected and adds no user.
C30_SeatLimit ==
  /\ [](\A i \in 1..Len(teams) :
          /\ teams[i].seats_used <= teams[i].seat_count
          /\ TeamQuiet(teams[i].id)
               => teams[i].seats_used = Cardinality(UsersOf(teams[i].id)))
  /\ [][\A c \in Clients :
          LET i == FindTeam(teams, auth_request[c].team_id)
          IN (/\ auth_request[c].pc = "member:find_team"
              /\ auth_request'[c] # auth_request[c]
              /\ i # 0
              /\ teams[i].seats_used >= teams[i].seat_count)
               => /\ auth_request'[c].pc = "done"
                  /\ auth_request'[c].status = 400
                  /\ users' = users]_vars

====
